---- MODULE Spec2Model ----
(***************************************************************************)
(* Cache-first synchronisation engine of MarkMe:                           *)
(*   - the subscription multiplexer of services/mongodb-service.ts         *)
(*     (subscribeToCluster, subscribeToAll, initializeSocket),             *)
(*   - the subscription wrapper MongoDBService (subscribeToCluster-        *)
(*     Employees / subscribeToClusterAttendance),                          *)
(*   - the stale-while-revalidate queries (fetchEmployeesByCluster,        *)
(*     fetchClusterAttendance, fetchAllEmployees, fetchAllAttendance,      *)
(*     getEmployeesWithAttendanceByCluster, getAllEmployeesWithAttendance) *)
(*     over the IndexedDB cache of services/cache-service.ts.              *)
(* One step of the model is one task of the JavaScript event loop: the     *)
(* synchronous code of a call or of an I/O completion together with the    *)
(* promise continuations that run before the next task.                    *)
(***************************************************************************)
EXTENDS Integers, FiniteSets, Sequences, TLC

\* ---------------------------------------------------------------- bounds
MaxSubs == 3       \* subscribe calls in SpecMux
MaxFanSubs == 3    \* subscribe calls in SpecFan
MaxSnapSubs == 2   \* subscribe calls in SpecSnap and SpecWrap
MaxEvents == 1     \* push events
MaxWCbs == 2       \* registrations with the wrapper
MaxQueries == 1    \* joined cache-first queries in SpecSWR
MaxFetches == 2    \* fetchFresh calls in flight for one scope in SpecRace
MaxChanges == 1    \* backend changes by other clients in SpecRace
MaxConnSubs == 2   \* subscribe calls in SpecConn
MaxCalls == 2      \* gateway calls in SpecRetry
MaxSaves == 2      \* saveAttendanceRecord calls in SpecSave
MaxSeqQueries == 2 \* joined queries called one after the other in SpecTwice
MaxCacheOps == 2   \* cache operations in SpecInit
MaxWrites == 3     \* cacheEmployees calls in SpecPart
MaxJoinLen == 2    \* length of the employee list in SpecJoin
MaxBatchIds == 65  \* ids requested by one batch fetch in SpecBatch
MaxInitCalls == 3  \* initializeSocket calls in SpecCred
MaxScopeSubs == 2  \* subscribe calls in SpecScope
MaxBreakerCalls == 3   \* FirestoreService calls in SpecBreaker
MaxClears == 2     \* clearClusterCache calls in SpecClear
MaxConfigs == 2    \* changes of the backend configuration in SpecCred

\* ------------------------------------------------------------- constants
Clusters == {"X"}
AllKey == "all"
Keys == Clusters \cup {AllKey}
NoCluster == "none"
MaxOf(S) == CHOOSE n \in S : \A m \in S : m <= n
Subs == 1..MaxOf({MaxSubs, MaxFanSubs, MaxSnapSubs, MaxConnSubs, MaxScopeSubs})
Events == 1..MaxEvents
WCbs == 1..MaxWCbs
Kinds == {"emp", "att"}
Queries == 1..MaxOf({MaxQueries, MaxSeqQueries})
Fetches == 1..MaxFetches
Calls == 1..MaxOf({MaxCalls, MaxBreakerCalls})
CacheOps == 1..MaxCacheOps
InitCalls == 1..MaxInitCalls
DefaultCred == "default"                \* DEFAULT_SOCKET_URL, DEFAULT_API_KEY
OtherCred == "custom"                   \* a URL and key the user has entered
Creds == {DefaultCred, OtherCred}
NoCred == "none"                        \* currentSocketUrl = '' / no socket
CacheReads == {"getLastSyncTime", "getCachedEmployeesByCluster", "getAllCachedEmployees",
               "getCachedAttendanceRecord", "getCachedAttendanceByCluster"}
CacheWrites == {"setLastSyncTime", "cacheEmployees", "cacheAttendanceRecords",
                "cacheAttendanceRecord", "clearCache"}
\* how the transaction of an operation ends: the request succeeds and the
\* transaction completes; a request fails (error event, bubbling to the
\* transaction); the transaction is aborted at commit (abort event only)
TxOutcomes == {"complete", "error", "abort"}
MaxAttempts == 3        \* withFirestoreRetry: maxAttempts
FailureThreshold == 5   \* firestoreCircuitBreaker: failureThreshold
BATCH_SIZE == 30        \* getAttendanceRecordsForEmployees: BATCH_SIZE
GatewayOps == {"fetchEmployees", "fetchAttendance", "saveAttendance"}
Gateways == {"mongodb", "firestore"}    \* fetchAPI / FirestoreService
Transient == "unavailable"              \* network down, HTTP 5xx
Permission == "permission-denied"       \* HTTP 401 / 403
Validation == "invalid-argument"        \* HTTP 400
BreakerOpen == "breaker-open"           \* Error('Circuit breaker is open'), no code
RequestErrors == {Transient, Permission, Validation}
Ids == {"A", "B"}                       \* employee ids
Partitions == {"X", "Y"}                \* clusters of the data set
Home == [id \in Ids |-> IF id = "A" THEN "X" ELSE "Y"]   \* Employee.cluster
Scopes == {"X", AllKey}                 \* scopes queried: one cluster, everything
Undefined == "undefined"                \* an omitted `cluster` argument
SyncKeys == {"X", "Y", "all", "attendance_X", "attendance_Y", "all_attendance"}
Contents == {"v1", "v2"}                \* contents of an attendance record
NoVal == "none"                         \* no record (undefined)
NoRecord == [val |-> NoVal, tag |-> "none"]
EmptyMap == [id \in Ids |-> NoVal]      \* new Map(): no record for any id
BlankMarkedBy == "blank"                \* a record whose markedBy is ''
KioskMarkedBy == "kiosk"                \* the same record with markedBy 'Kiosk'
SaveInputs == Contents \cup {BlankMarkedBy}   \* `data` of saveAttendanceRecord

VARIABLES
  \* ---- push channel (mongodb-service.ts)
  socket,        \* module variable `socket`: 0 = null, else the socket id
  sockets,       \* sockets created so far (id = the subscribe call whose initializeSocket built it)
  sockRooms,     \* rooms each socket has joined on the server
  sockHandlers,  \* 'attendanceUpdated' handlers attached to each socket (id = registering call)
  active,        \* activeClusterSubscriptions / adminSubscription: key -> subInfo object (0 = none)
  objListeners,  \* subInfo.listeners of every subInfo object (id = creating call)
  objHandler,    \* subInfo.handler of every subInfo object (0 = null)
  \* ---- one closure per subscribe call
  subState,      \* "free" (not called yet), "live", "dead" (unsubscribe has returned)
  subKey,        \* the key of the call
  subObj,        \* the subInfo object the call registered its listener in
  subSock,       \* closure variable `sock` (0 = null)
  init,          \* the call's initializeSocket promise: "none", "creating", "existing", "done"
  initSock,      \* the socket an "existing" initializeSocket returned
  fetchSt,       \* initial fetch per kind: "none", "pending", "failed", "ok" (callback invoked),
                 \* "late" (callback invoked after the call's unsubscribe had returned)
  \* ---- push events and the refetches they start
  nEvents,       \* push events delivered so far
  started,       \* every forced refetch started by a handler: [h: handler, e: event, kind]
  refreshes,     \* the refetches still in flight
  failed,        \* the refetches that were rejected
  attFrom,       \* per listener: the status refetches whose result its onAttendance received
  evOk,          \* per event: keys whose handler received it and whose listeners did not change since
  \* ---- history
  joinCount, leaveCount, onCount,  \* join emits / leave emits / sock.on per key
  subAfterUnsub, \* a subscribe for the key followed an unsubscribe for it
  pendingAtSub,  \* the call found its key's subInfo without handler (join pending)
  objJoins,      \* joins emitted on behalf of each subInfo object
  \* ---- subscription wrapper (MongoDBService)
  wsubs,         \* clusterSubscriptions: cluster -> sub object (id = its subscribeToCluster call; 0 = none)
  wCbs,          \* employeeCallbacks / attendanceCallbacks of every sub object
  wState,        \* wrapper registrations: "free", "live", "dead"
  wKind, wObj,   \* kind of the registration and the sub object its closure holds
  wGot, wLate,   \* its callback was invoked / invoked after its unsubscribe returned
  \* ---- cache (cache-service.ts) and remote store
  dbOpen,        \* CacheService.db is open (FALSE: IndexedDB failed to open, db stays null)
  cacheEmp,      \* EMPLOYEES_STORE: the stored records [empId, cluster]
  cacheAtt,      \* ATTENDANCE_STORE: id -> [val: contents (NoVal = no record), tag: `cluster` of the record]
  lastSync,      \* METADATA_STORE: sync key -> lastSync (0 = no entry)
  clock,         \* Date.now()
  remoteEmp,     \* employees the backend holds
  remoteAtt,     \* attendance records the backend holds (NoVal = none)
  empCluster,    \* Employee.cluster of every employee, as the backend holds it
  \* ---- one joined query per call (MongoDBService.get...WithAttendance...)
  qPhase,        \* "idle", "running", "resolved", "rejected"
  qScope, qForce, qOnFresh,  \* cluster or "all"; useCache === false; options.onFresh given
  eSt, aSt,      \* network fetch of employees / attendance: "none", "flight", "ok", "fail"
  eFast, aFast,  \* the fetch function returned cachedData (fetchFresh runs in the background)
  cachedE, cachedA,  \* cachedData of the two fetch functions
  netE, netA,    \* the responses of the two network fetches
  latestE, latestA,  \* latestEmployees, latestAttendance
  freshE, freshA,    \* freshDataReceived.employees / .attendance
  qResult,       \* the value the call resolved with
  qFresh         \* the payloads options.onFresh was invoked with, in order

VARIABLES
  \* ---- fetchFresh calls racing for one scope (mongodb-service.ts)
  raceScope,     \* the scope the racing calls fetch
  raceKind,      \* what they fetch: employees or attendance
  fSt,           \* per call: "idle", "sent", "served", "writing", "done"
  fResp,         \* the response the backend built for the call:
                 \* [e: Employee rows [empId, cluster], a: attendance map]
  fTodo,         \* clusterGroups entries the call has not cached yet
  arrivals,      \* the calls whose response has arrived, in order of arrival
  nChanges       \* changes other clients made at the backend

VARIABLES
  \* ---- transport of the push channel (socket.io-client)
  sockDown,      \* sockets whose transport is disconnected
  sockAgain      \* sockets whose transport has reconnected after a disconnect

VARIABLES
  \* ---- remote gateway calls and the retry utilities (retry-utils)
  callSt,        \* per call: "idle", "flight", "sleeping", "ok", "failed"
  callOp,        \* the operation: entity fetch, status fetch, status save
  callGw,        \* the gateway implementation that serves it
  callAttempts,  \* `attempt` of retryWithBackoff (1 for the call of fetchAPI)
  callErrs,      \* the errors the attempts of the call ended with, in order
  cbFailures,    \* firestoreCircuitBreaker.failures
  cbState,       \* firestoreCircuitBreaker.state
  cbElapsed      \* Date.now() - lastFailureTime > recoveryTimeout

VARIABLES
  \* ---- saveAttendanceRecord calls (mongodb-service.ts)
  saveSt,        \* "idle" or "flight": the POST request of the running call
  saveId, saveRec, saveCluster,  \* arguments of the running call: empId, data, cluster
  nSaves,        \* calls made so far
  lastSaved,     \* per employee: `data` of the last call that resolved (NoVal = none)
  qClean         \* per joined query: no save was in flight when it was called
                 \* and none has been called since

VARIABLES
  \* ---- CacheService.init and the operations that await it (cache-service.ts)
  hasWindow,     \* typeof window !== 'undefined'
  initPromise,   \* this.initPromise: 0 = null, else the promise (numbered by creation)
  nPromises,     \* init promises created so far
  resolvedInits, \* the init promises that are resolved
  openCount,     \* calls of indexedDB.open
  pendingOpens,  \* init promises whose open request is pending
  dbClosed,      \* the browser has closed the connection this.db refers to
  opSt,          \* per operation: "idle", "awaiting" (init), "request", "resolved",
                 \* "rejected", "hung" (its promise never settles)
  opKind,        \* the method called
  opAwaits,      \* the init promise the operation awaits or awaited (0 = none)
  opResult       \* what it resolved with: "data", "empty", "written", "noop"

VARIABLES
  \* ---- callers of the employees store and of the joined views
  partWrites,    \* cacheEmployees calls made
  partAll,       \* result of the last getAllCachedEmployees()
  partBy,        \* per cluster: result of the last getCachedEmployeesByCluster(cluster)
  joinE,         \* an employee list (empIds in list order)
  joinM,         \* an attendance map: empId -> record, for the ids it has
  joinRows,      \* << result >> of the cache join of joinE and joinM, << >> before
  joinMerged     \* << result >> of the gateway merge of joinE and joinM, << >> before

VARIABLES
  \* ---- batch fetch of attendance records by employee ids
  bGw,           \* the gateway called: "mongodb" (fetchAttendanceByEmployeeIds) or
                 \* "firestore" (getAttendanceRecordsForEmployees)
  bIds,          \* empIds.length; the ids are 1..bIds in list order
  bForce,        \* forceRefresh
  bCached,       \* every requested id has a cached record
  bSt,           \* "start", "request", "done", "failed" (the call rejected)
  bI,            \* loop variable i
  bCalls,        \* the remote calls issued: the ids each one carried
  bFromCache     \* the call returned the cached records

VARIABLES
  \* ---- backend configuration and the socket opened with it (mongodb-service.ts)
  config,        \* socket URL and API key in localStorage
  nConfig,       \* changes of the configuration made
  curCred,       \* currentSocketUrl / currentSocketApiKey
  cSocket,       \* module variable `socket` (0 = null, else the socket id)
  cSockCred,     \* per socket: URL and key it was opened with (NoCred = not created)
  cSockOpen,     \* the sockets created and not disconnected
  iSt,           \* per initializeSocket call: "idle", "import" (awaiting the import), "done"
  iCred,         \* newSocketUrl / newApiKey of the call
  iVia,          \* the caller: "subscribe" or "reconnect" (reconnectSocket)
  iSock          \* the socket the call returned (0 = none yet)

VARIABLES
  \* ---- history of the push events
  evScope        \* per event: its data.cluster (NoCluster: none; "unset": not delivered)


VARIABLES
  \* ---- the outcome of a save (mongodb-service.ts)
  fGw,           \* the gateway the save was called on
  fBefore,       \* the attendance store when the save was called
  fOutcome,      \* "none", "pending", "resolved", "rejected"
  fAttempts      \* attempts withFirestoreRetry has started for the save


VARIABLES
  \* ---- clearClusterCache (cache-service.ts)
  clrSt,         \* "idle", "read" (employees of the cluster read), "done"
  clrCluster,    \* the cluster of the call
  clrEmployees,  \* `employees`: the ids getCachedEmployeesByCluster returned
  clrBefore,     \* the three stores when the call was made
  nClears        \* clearClusterCache calls made

muxVars == <<socket, sockets, sockRooms, sockHandlers, active, objListeners, objHandler,
             subState, subKey, subObj, subSock, init, initSock, fetchSt,
             nEvents, started, refreshes, failed, attFrom, evOk,
             joinCount, leaveCount, onCount, subAfterUnsub, pendingAtSub, objJoins>>
wrapVars == <<wsubs, wCbs, wState, wKind, wObj, wGot, wLate>>
swrVars == <<dbOpen, cacheEmp, cacheAtt, lastSync, clock, remoteEmp, remoteAtt, empCluster,
             qPhase, qScope, qForce, qOnFresh, eSt, aSt, eFast, aFast, cachedE, cachedA,
             netE, netA, latestE, latestA, freshE, freshA, qResult, qFresh>>
qVars == <<qPhase, qScope, qForce, qOnFresh, eSt, aSt, eFast, aFast, cachedE, cachedA,
           netE, netA, latestE, latestA, freshE, freshA, qResult, qFresh>>
raceVars == <<raceScope, raceKind, fSt, fResp, fTodo, arrivals, nChanges>>
connVars == <<sockDown, sockAgain>>
retryVars == <<callSt, callOp, callGw, callAttempts, callErrs, cbFailures, cbState, cbElapsed>>
saveVars == <<saveSt, saveId, saveRec, saveCluster, nSaves, lastSaved, qClean>>
initVars == <<hasWindow, initPromise, nPromises, resolvedInits, openCount, pendingOpens,
             dbClosed, opSt, opKind, opAwaits, opResult>>
partVars == <<partWrites, partAll, partBy>>
joinVars == <<joinE, joinM, joinRows, joinMerged>>
batchVars == <<bGw, bIds, bForce, bCached, bSt, bI, bCalls, bFromCache>>
credVars == <<config, nConfig, curCred, cSocket, cSockCred, cSockOpen, iSt, iCred, iVia, iSock>>
scopeVars == <<evScope>>
failVars == <<fGw, fBefore, fOutcome, fAttempts>>
clearVars == <<clrSt, clrCluster, clrEmployees, clrBefore, nClears>>
lateVars == <<batchVars, credVars, scopeVars, failVars, clearVars>>
auxVars == <<raceVars, connVars, retryVars, saveVars, initVars, partVars, joinVars, lateVars>>
raceOther == <<muxVars, wrapVars, connVars, retryVars, saveVars, initVars, partVars, joinVars, lateVars>>
connOther == <<wrapVars, swrVars, raceVars, retryVars, saveVars, initVars, partVars, joinVars, lateVars>>
retryOther == <<muxVars, wrapVars, swrVars, raceVars, connVars, saveVars, initVars,
                partVars, joinVars, lateVars>>
saveOther == <<muxVars, wrapVars, raceVars, connVars, retryVars, initVars, partVars, joinVars, lateVars>>
initOther == <<muxVars, wrapVars, raceVars, connVars, retryVars, saveVars, partVars, joinVars,
               cacheEmp, cacheAtt, lastSync, clock, remoteEmp, remoteAtt, empCluster, qVars,
               lateVars>>
partOther == <<muxVars, wrapVars, raceVars, connVars, retryVars, saveVars, initVars, joinVars,
               dbOpen, cacheAtt, lastSync, clock, remoteEmp, remoteAtt, empCluster, qVars,
               lateVars>>
joinOther == <<muxVars, wrapVars, swrVars, raceVars, connVars, retryVars, saveVars, initVars,
               partVars, lateVars>>
earlyVars == <<muxVars, wrapVars, swrVars, raceVars, connVars, retryVars, saveVars, initVars,
               partVars, joinVars>>
batchOther == <<earlyVars, credVars, scopeVars, failVars, clearVars>>
credOther == <<earlyVars, batchVars, scopeVars, failVars, clearVars>>
scopeOther == <<earlyVars, batchVars, credVars, failVars, clearVars>>
failOther == <<earlyVars, batchVars, credVars, scopeVars, clearVars>>
clearOther == <<earlyVars, batchVars, credVars, scopeVars, failVars>>
vars == <<muxVars, wrapVars, swrVars, auxVars>>

\* ------------------------------------------------------------- helpers
Listeners(k) == IF active[k] = 0 THEN {} ELSE objListeners[active[k]]

\* Listener callbacks of the subscribe calls in L are invoked.  For a call made
\* by the wrapper the callback is the wrapper closure that fans the value out
\* to employeeCallbacks / attendanceCallbacks.
InvokeCallbacks(L, kind) ==
  LET W == UNION {wCbs[i][kind] : i \in L} IN
  /\ wGot' = [w \in WCbs |-> wGot[w] \/ w \in W]
  /\ wLate' = [w \in WCbs |-> wLate[w] \/ (w \in W /\ wState[w] = "dead")]

\* ----------------------------------------------------- subscribe (core)
\* subscribeToCluster(cluster, onEmployees, onAttendance) up to the return of
\* the unsubscribe closure; i names the call and its closure.
subscribeToCluster(i, k) ==
  LET fresh == active[k] = 0
      o == IF fresh THEN i ELSE active[k]
  IN
  /\ subState[i] = "free"
  /\ subState' = [subState EXCEPT ![i] = "live"]
  /\ subKey' = [subKey EXCEPT ![i] = k]
  /\ subObj' = [subObj EXCEPT ![i] = o]
  /\ active' = [active EXCEPT ![k] = o]
  /\ objListeners' = [objListeners EXCEPT ![o] = (IF fresh THEN {} ELSE @) \cup {i}]
  /\ objHandler' = [objHandler EXCEPT ![o] = IF fresh THEN 0 ELSE @]
  \* initializeSocket(): returns the existing socket, or awaits the import
  /\ init' = [init EXCEPT ![i] = IF socket # 0 THEN "existing" ELSE "creating"]
  /\ initSock' = [initSock EXCEPT ![i] = socket]
  \* initial fetch of employees and attendance
  /\ fetchSt' = [fetchSt EXCEPT ![i] = [kd \in Kinds |-> "pending"]]
  /\ pendingAtSub' = [pendingAtSub EXCEPT ![i] = (~fresh) /\ objHandler[o] = 0]
  /\ subAfterUnsub' = [subAfterUnsub EXCEPT ![k] =
                         @ \/ \E j \in Subs : subState[j] = "dead" /\ subKey[j] = k]
  /\ evOk' = [e \in Events |-> evOk[e] \ {k}]
  /\ UNCHANGED <<socket, sockets, sockRooms, sockHandlers, subSock,
                 nEvents, started, refreshes, failed, attFrom,
                 joinCount, leaveCount, onCount, objJoins>>

\* subscribeToAll(onEmployees, onAttendance): the same code over adminSubscription
subscribeToAll(i) == subscribeToCluster(i, AllKey)

\* The .then callback of initializeSocket() in subscribeToCluster / subscribeToAll.
\* A "creating" initializeSocket first finishes: it builds a socket of its own
\* and stores it in the module variable.  checkHandler is the test
\* `if (!currentSubInfo.handler)`.
SocketReadyStep(i, checkHandler) ==
  LET s == IF init[i] = "creating" THEN i ELSE initSock[i]
      k == subKey[i]
      cur == active[k]
      live == subState[i] = "live"
      setup == live /\ cur # 0 /\ (checkHandler => objHandler[cur] = 0)
  IN
  /\ init[i] \in {"creating", "existing"}
  /\ init' = [init EXCEPT ![i] = "done"]
  /\ socket' = IF init[i] = "creating" THEN s ELSE socket
  /\ sockets' = sockets \cup {s}
  /\ subSock' = [subSock EXCEPT ![i] = IF live THEN s ELSE @]
  /\ IF setup
       THEN /\ sockRooms' = [sockRooms EXCEPT ![s] = @ \cup {k}]
            /\ joinCount' = [joinCount EXCEPT ![k] = @ + 1]
            /\ objJoins' = [objJoins EXCEPT ![cur] = @ + 1]
            /\ sockHandlers' = [sockHandlers EXCEPT ![s] = @ \cup {i}]
            /\ onCount' = [onCount EXCEPT ![k] = @ + 1]
            /\ objHandler' = [objHandler EXCEPT ![cur] = i]
       ELSE UNCHANGED <<sockRooms, joinCount, objJoins, sockHandlers, onCount, objHandler>>
  /\ UNCHANGED <<active, objListeners, subState, subKey, subObj, initSock, fetchSt,
                 nEvents, started, refreshes, failed, attFrom, evOk,
                 leaveCount, subAfterUnsub, pendingAtSub>>

\* (mutation: the handler test is dropped, every ready callback joins)
SocketReadyBody_NoHandlerTest(i) == SocketReadyStep(i, FALSE)

SocketReadyBody(i) == SocketReadyStep(i, TRUE)

\* The unsubscribe closure returned by subscribeToCluster / subscribeToAll.
unsubscribe(i) ==
  LET k == subKey[i]
      cur == active[k]
      L == IF cur = 0 THEN {} ELSE objListeners[cur] \ {i}
      drop == cur # 0 /\ L = {}
      leave == drop /\ subSock[i] # 0 /\ objHandler[cur] # 0
  IN
  /\ subState[i] \in {"live", "dead"}
  /\ subState' = [subState EXCEPT ![i] = "dead"]
  /\ objListeners' = IF cur = 0 THEN objListeners ELSE [objListeners EXCEPT ![cur] = L]
  /\ active' = IF drop THEN [active EXCEPT ![k] = 0] ELSE active
  /\ IF leave
       THEN /\ sockRooms' = [sockRooms EXCEPT ![subSock[i]] = @ \ {k}]
            /\ leaveCount' = [leaveCount EXCEPT ![k] = @ + 1]
            /\ sockHandlers' = [sockHandlers EXCEPT ![subSock[i]] = @ \ {objHandler[cur]}]
       ELSE UNCHANGED <<sockRooms, leaveCount, sockHandlers>>
  /\ evOk' = [e \in Events |-> evOk[e] \ {k}]
  /\ UNCHANGED <<socket, sockets, objHandler, subKey, subObj, subSock, init, initSock, fetchSt,
                 nEvents, started, refreshes, failed, attFrom,
                 joinCount, onCount, subAfterUnsub, pendingAtSub, objJoins>>

\* (mutation: the cluster handler does not test data.cluster)
handleAttendanceUpdate_NoScopeTest(h, c) ==
  IF subKey[h] = AllKey
    THEN (IF active[AllKey] = 0 THEN {} ELSE Kinds)
    ELSE {"att"}

\* handleAttendanceUpdate of handler h for an event with data.cluster = c:
\* the kinds of forced refetch it starts.
handleAttendanceUpdate(h, c) ==
  IF subKey[h] = AllKey
    THEN (IF active[AllKey] = 0 THEN {} ELSE Kinds)
    ELSE (IF c = NoCluster \/ c = subKey[h] THEN {"att"} ELSE {})

\* The listeners a finished refetch of handler h notifies: the cluster handler
\* holds its subInfo object, the admin handler reads adminSubscription.
NotifiedBy(h) ==
  IF subKey[h] = AllKey THEN Listeners(AllKey) ELSE objListeners[subObj[h]]

\* --------------------------------------------------------------- state
InitMuxVars ==
  /\ socket = 0
  /\ sockets = {}
  /\ sockRooms = [s \in Subs |-> {}]
  /\ sockHandlers = [s \in Subs |-> {}]
  /\ active = [k \in Keys |-> 0]
  /\ objListeners = [o \in Subs |-> {}]
  /\ objHandler = [o \in Subs |-> 0]
  /\ subState = [i \in Subs |-> "free"]
  /\ subKey = [i \in Subs |-> NoCluster]
  /\ subObj = [i \in Subs |-> 0]
  /\ subSock = [i \in Subs |-> 0]
  /\ init = [i \in Subs |-> "none"]
  /\ initSock = [i \in Subs |-> 0]
  /\ fetchSt = [i \in Subs |-> [kd \in Kinds |-> "none"]]
  /\ nEvents = 0
  /\ started = {}
  /\ refreshes = {}
  /\ failed = {}
  /\ attFrom = [i \in Subs |-> {}]
  /\ evOk = [e \in Events |-> {}]
  /\ joinCount = [k \in Keys |-> 0]
  /\ leaveCount = [k \in Keys |-> 0]
  /\ onCount = [k \in Keys |-> 0]
  /\ subAfterUnsub = [k \in Keys |-> FALSE]
  /\ pendingAtSub = [i \in Subs |-> FALSE]
  /\ objJoins = [o \in Subs |-> 0]

InitWrapVars ==
  /\ wsubs = [c \in Clusters |-> 0]
  /\ wCbs = [o \in Subs |-> [kd \in Kinds |-> {}]]
  /\ wState = [w \in WCbs |-> "free"]
  /\ wKind = [w \in WCbs |-> "emp"]
  /\ wObj = [w \in WCbs |-> 0]
  /\ wGot = [w \in WCbs |-> FALSE]
  /\ wLate = [w \in WCbs |-> FALSE]

\* ------------------------------------------------- multiplexer actions
FreeSubs == {i \in Subs : subState[i] = "free"}
NextSub == CHOOSE i \in FreeSubs : \A j \in FreeSubs : i <= j

\* a caller subscribes to a cluster / to all updates; n bounds the calls
Subscribe(k, n) ==
  /\ FreeSubs # {}
  /\ NextSub <= n
  /\ IF k = AllKey THEN subscribeToAll(NextSub) ELSE subscribeToCluster(NextSub, k)
  /\ UNCHANGED <<wrapVars, swrVars, auxVars>>

\* the socket of a subscribe call is ready
SocketReady(i) == SocketReadyBody(i) /\ UNCHANGED <<wrapVars, swrVars, auxVars>>

\* a caller calls the unsubscribe function it was given
Unsubscribe(i) ==
  /\ subState[i] = "live"
  /\ unsubscribe(i)
  /\ UNCHANGED <<wrapVars, swrVars, auxVars>>

\* the initial fetch of a subscribe call settles: .then(onEmployees) / .then(onAttendance)
InitialFetchDone(i, kind, ok) ==
  /\ fetchSt[i][kind] = "pending"
  /\ fetchSt' = [fetchSt EXCEPT ![i][kind] =
                   IF ~ok THEN "failed" ELSE IF subState[i] = "dead" THEN "late" ELSE "ok"]
  /\ IF ok THEN InvokeCallbacks({i}, kind) ELSE UNCHANGED <<wGot, wLate>>
  /\ UNCHANGED <<socket, sockets, sockRooms, sockHandlers, active, objListeners, objHandler,
                 subState, subKey, subObj, subSock, init, initSock,
                 nEvents, started, refreshes, failed, attFrom, evOk,
                 joinCount, leaveCount, onCount, subAfterUnsub, pendingAtSub,
                 objJoins, wsubs, wCbs, wState, wKind, wObj, swrVars, auxVars>>

\* The server pushes 'attendanceUpdated' with data.cluster = c: every socket in
\* the room of c or in the room of all receives it and runs its handlers.
attendanceUpdated(c) ==
  LET e == nEvents + 1
      recv == {s \in sockets : c \in sockRooms[s] \/ AllKey \in sockRooms[s]
                               \/ (c = NoCluster /\ sockRooms[s] # {})}
      fired == {h \in Subs : \E s \in recv : h \in sockHandlers[s]}
      new == {r \in {[h |-> h, e |-> e, kind |-> kd] : h \in fired, kd \in Kinds} :
                r.kind \in handleAttendanceUpdate(r.h, c)}
      ForKey(k) == k = AllKey \/ c = NoCluster \/ c = k
  IN
  /\ nEvents < MaxEvents
  /\ recv # {}
  /\ nEvents' = e
  /\ started' = started \cup new
  /\ refreshes' = refreshes \cup new
  /\ evOk' = [evOk EXCEPT ![e] = {k \in Keys : /\ ForKey(k)
                                              /\ active[k] # 0
                                              /\ objHandler[active[k]] \in fired}]
  /\ UNCHANGED <<socket, sockets, sockRooms, sockHandlers, active, objListeners, objHandler,
                 subState, subKey, subObj, subSock, init, initSock, fetchSt,
                 failed, attFrom, joinCount, leaveCount, onCount,
                 subAfterUnsub, pendingAtSub, objJoins, wrapVars, swrVars>>

PushEvent(c) == attendanceUpdated(c) /\ UNCHANGED auxVars

\* a forced refetch started by a push event settles; on success its .then
\* notifies the listeners
RefreshDone(r, ok) ==
  LET L == NotifiedBy(r.h) IN
  /\ r \in refreshes
  /\ refreshes' = refreshes \ {r}
  /\ IF ok
       THEN /\ InvokeCallbacks(L, r.kind)
            /\ attFrom' = [i \in Subs |-> IF i \in L /\ r.kind = "att"
                                            THEN attFrom[i] \cup {r} ELSE attFrom[i]]
            /\ UNCHANGED failed
       ELSE /\ failed' = failed \cup {r}
            /\ UNCHANGED <<wGot, wLate, attFrom>>
  /\ UNCHANGED <<socket, sockets, sockRooms, sockHandlers, active, objListeners, objHandler,
                 subState, subKey, subObj, subSock, init, initSock, fetchSt,
                 nEvents, started, evOk, joinCount, leaveCount, onCount, subAfterUnsub,
                 pendingAtSub, objJoins, wsubs, wCbs, wState, wKind, wObj, swrVars, auxVars>>

\* no joined query called yet
InitQVars ==
  /\ qPhase = [q \in Queries |-> "idle"]
  /\ qScope = [q \in Queries |-> AllKey]
  /\ qForce = [q \in Queries |-> FALSE]
  /\ qOnFresh = [q \in Queries |-> FALSE]
  /\ eSt = [q \in Queries |-> "none"]
  /\ aSt = [q \in Queries |-> "none"]
  /\ eFast = [q \in Queries |-> FALSE]
  /\ aFast = [q \in Queries |-> FALSE]
  /\ cachedE = [q \in Queries |-> {}]
  /\ cachedA = [q \in Queries |-> EmptyMap]
  /\ netE = [q \in Queries |-> {}]
  /\ netA = [q \in Queries |-> EmptyMap]
  /\ latestE = [q \in Queries |-> {}]
  /\ latestA = [q \in Queries |-> EmptyMap]
  /\ freshE = [q \in Queries |-> FALSE]
  /\ freshA = [q \in Queries |-> FALSE]
  /\ qResult = [q \in Queries |-> << >>]
  /\ qFresh = [q \in Queries |-> << >>]

\* cache and queries untouched: the multiplexer specifications leave them alone
InitSwrIdle ==
  /\ dbOpen = TRUE
  /\ cacheEmp = {}
  /\ cacheAtt = [id \in Ids |-> NoRecord]
  /\ lastSync = [k \in SyncKeys |-> 0]
  /\ clock = 0
  /\ remoteEmp = {}
  /\ remoteAtt = EmptyMap
  /\ empCluster = Home
  /\ InitQVars

\* no fetchFresh call racing
NoResponse == [e |-> {}, a |-> EmptyMap]
InitRaceIdle ==
  /\ raceScope = AllKey
  /\ raceKind = "emp"
  /\ fSt = [f \in Fetches |-> "idle"]
  /\ fResp = [f \in Fetches |-> NoResponse]
  /\ fTodo = [f \in Fetches |-> {}]
  /\ arrivals = << >>
  /\ nChanges = 0

\* every transport stays connected
InitConnIdle ==
  /\ sockDown = {}
  /\ sockAgain = {}

\* no gateway call made, breaker closed
InitRetryIdle ==
  /\ callSt = [c \in Calls |-> "idle"]
  /\ callOp = [c \in Calls |-> "none"]
  /\ callGw = [c \in Calls |-> "none"]
  /\ callAttempts = [c \in Calls |-> 0]
  /\ callErrs = [c \in Calls |-> << >>]
  /\ cbFailures = 0
  /\ cbState = "closed"
  /\ cbElapsed = FALSE

\* no save called
InitSaveIdle ==
  /\ saveSt = "idle"
  /\ saveId = "none"
  /\ saveRec = NoVal
  /\ saveCluster = Undefined
  /\ nSaves = 0
  /\ lastSaved = EmptyMap
  /\ qClean = [q \in Queries |-> FALSE]

\* the cache service after its initialisation, no operation running
InitInitIdle ==
  /\ hasWindow = TRUE
  /\ initPromise = 1
  /\ nPromises = 1
  /\ resolvedInits = {1}
  /\ openCount = 1
  /\ pendingOpens = {}
  /\ dbClosed = FALSE
  /\ opSt = [o \in CacheOps |-> "idle"]
  /\ opKind = [o \in CacheOps |-> "none"]
  /\ opAwaits = [o \in CacheOps |-> 0]
  /\ opResult = [o \in CacheOps |-> "none"]

\* no read of the employees store made yet
InitPartIdle ==
  /\ partWrites = 0
  /\ partAll = {}
  /\ partBy = [p \in Partitions |-> {}]

\* no joined view computed
InitJoinIdle ==
  /\ joinE = << >>
  /\ joinM = << >>
  /\ joinRows = << >>
  /\ joinMerged = << >>

\* no batch fetch made
InitBatchIdle ==
  /\ bGw = "mongodb"
  /\ bIds = 0
  /\ bForce = FALSE
  /\ bCached = FALSE
  /\ bSt = "done"
  /\ bI = 0
  /\ bCalls = << >>
  /\ bFromCache = FALSE

\* no initializeSocket call made, the default configuration
InitCredIdle ==
  /\ config = DefaultCred
  /\ nConfig = 0
  /\ curCred = NoCred
  /\ cSocket = 0
  /\ cSockCred = [j \in InitCalls |-> NoCred]
  /\ cSockOpen = {}
  /\ iSt = [j \in InitCalls |-> "idle"]
  /\ iCred = [j \in InitCalls |-> NoCred]
  /\ iVia = [j \in InitCalls |-> "subscribe"]
  /\ iSock = [j \in InitCalls |-> 0]

\* no push event delivered
InitScopeIdle ==
  /\ evScope = [e \in Events |-> "unset"]

InitFailIdle ==
  /\ fGw = "mongodb"
  /\ fBefore = [id \in Ids |-> NoRecord]
  /\ fOutcome = "none"
  /\ fAttempts = 0

InitClearIdle ==
  /\ clrSt = "idle"
  /\ clrCluster = "X"
  /\ clrEmployees = {}
  /\ nClears = 0
  /\ clrBefore = [emp |-> {}, att |-> [id \in Ids |-> NoRecord],
                  sync |-> [k \in SyncKeys |-> 0]]

InitLateExcept(g) ==
  /\ IF g = "batch" THEN TRUE ELSE InitBatchIdle
  /\ IF g = "cred" THEN TRUE ELSE InitCredIdle
  /\ IF g = "scope" THEN TRUE ELSE InitScopeIdle
  /\ IF g = "fail" THEN TRUE ELSE InitFailIdle
  /\ IF g = "clear" THEN TRUE ELSE InitClearIdle

InitLateIdle == InitLateExcept("none")

\* the earlier groups at rest: nothing subscribed, an empty cache
InitEarlyIdle ==
  /\ InitMuxVars /\ InitWrapVars
  /\ InitRaceIdle /\ InitConnIdle /\ InitRetryIdle /\ InitSaveIdle /\ InitInitIdle
  /\ InitPartIdle /\ InitJoinIdle
  /\ dbOpen = TRUE
  /\ cacheEmp = {}
  /\ cacheAtt = [id \in Ids |-> NoRecord]
  /\ lastSync = [k \in SyncKeys |-> 0]
  /\ clock = 0
  /\ remoteEmp = {}
  /\ remoteAtt = EmptyMap
  /\ empCluster = Home
  /\ InitQVars

InitAuxIdle ==
  /\ InitRaceIdle /\ InitConnIdle /\ InitRetryIdle /\ InitSaveIdle /\ InitInitIdle
  /\ InitPartIdle /\ InitJoinIdle
  /\ InitLateIdle

InitMux == InitMuxVars /\ InitWrapVars /\ InitSwrIdle /\ InitAuxIdle

\* Multiplexer life cycle: subscribe, socket-ready and unsubscribe in any
\* interleaving.  Push events are left to SpecFan, the settling of the initial
\* fetches to SpecSnap.
NextMux ==
  \/ \E k \in Keys : Subscribe(k, MaxSubs)
  \/ \E i \in Subs : SocketReady(i)
  \/ \E i \in Subs : Unsubscribe(i)

SpecMux == InitMux /\ [][NextMux]_vars

\* The life cycle interleaved with push events and the refetches they start.
NextFan ==
  \/ \E k \in Keys : Subscribe(k, MaxFanSubs)
  \/ \E i \in Subs : SocketReady(i)
  \/ \E i \in Subs : Unsubscribe(i)
  \/ \E c \in Clusters \cup {NoCluster} : PushEvent(c)
  \/ \E r \in refreshes, ok \in BOOLEAN : RefreshDone(r, ok)

SpecFan == InitMux /\ [][NextFan]_vars

\* Snapshot cycle: the initial fetches settle as well.
NextSnap ==
  \/ \E k \in Keys : Subscribe(k, MaxSnapSubs)
  \/ \E i \in Subs : SocketReady(i)
  \/ \E i \in Subs : Unsubscribe(i)
  \/ \E i \in Subs, kd \in Kinds, ok \in BOOLEAN : InitialFetchDone(i, kd, ok)
  \/ \E c \in Clusters \cup {NoCluster} : PushEvent(c)
  \/ \E r \in refreshes, ok \in BOOLEAN : RefreshDone(r, ok)

SpecSnap == InitMux /\ [][NextSnap]_vars

\* ------------------------------------------------- transport of a socket
\* The transport of socket s drops.  The 'disconnect' handler of
\* initializeSocket sets isConnected and tells the connection listeners; the
\* server forgets the rooms of the connection.  Packets emitted while the
\* transport is down are buffered by the client and sent at the reconnect, so
\* sockRooms[s] then holds the rooms the server will know after the flush.
TransportDisconnect(s) ==
  /\ s \in sockets \ sockDown
  /\ sockDown' = sockDown \cup {s}
  /\ sockRooms' = [sockRooms EXCEPT ![s] = {}]
  /\ UNCHANGED <<socket, sockets, sockHandlers, active, objListeners, objHandler,
                 subState, subKey, subObj, subSock, init, initSock, fetchSt,
                 nEvents, started, refreshes, failed, attFrom, evOk,
                 joinCount, leaveCount, onCount, subAfterUnsub, pendingAtSub, objJoins>>
  /\ UNCHANGED <<sockAgain, connOther>>

\* socket.io-client reconnects the transport (reconnection: true).  The
\* 'connect' handler of initializeSocket sets isConnected and tells the
\* connection listeners; it emits nothing.
TransportReconnect(s) ==
  /\ s \in sockDown
  /\ sockDown' = sockDown \ {s}
  /\ sockAgain' = sockAgain \cup {s}
  /\ UNCHANGED <<muxVars, connOther>>

NextConn ==
  \/ \E k \in Keys : Subscribe(k, MaxConnSubs)
  \/ \E i \in Subs : SocketReady(i)
  \/ \E i \in Subs : Unsubscribe(i)
  \/ \E s \in Subs : TransportDisconnect(s)
  \/ \E s \in Subs : TransportReconnect(s)

SpecConn == InitMux /\ [][NextConn]_vars

\* ----------------------------------------------------- wrapper actions
\* MongoDBService.subscribeToClusterEmployees / subscribeToClusterAttendance
\* (the two methods differ in the callback set only): registration w of
\* kind kd for cluster c.
wrapperSubscribe(w, kd, c) ==
  LET create == wsubs[c] = 0
      o == IF create THEN NextSub ELSE wsubs[c]
  IN
  /\ wState[w] = "free"
  /\ IF create
       THEN FreeSubs # {} /\ NextSub <= MaxSnapSubs /\ subscribeToCluster(NextSub, c)
       ELSE UNCHANGED muxVars
  /\ wsubs' = [wsubs EXCEPT ![c] = o]
  /\ wCbs' = [wCbs EXCEPT ![o] =
                [k2 \in Kinds |-> (IF create THEN {} ELSE wCbs[o][k2])
                                   \cup (IF k2 = kd THEN {w} ELSE {})]]
  /\ wState' = [wState EXCEPT ![w] = "live"]
  /\ wKind' = [wKind EXCEPT ![w] = kd]
  /\ wObj' = [wObj EXCEPT ![w] = o]
  /\ UNCHANGED <<wGot, wLate>>

subscribeToClusterEmployees(w, c) == wrapperSubscribe(w, "emp", c)
subscribeToClusterAttendance(w, c) == wrapperSubscribe(w, "att", c)

\* the unsubscribe closure the wrapper returns for registration w
wrapperUnsubscribe(w) ==
  LET o == wObj[w]
      cbs == [k2 \in Kinds |-> IF k2 = wKind[w] THEN wCbs[o][k2] \ {w} ELSE wCbs[o][k2]]
      empty == cbs["emp"] = {} /\ cbs["att"] = {}
  IN
  /\ wState[w] \in {"live", "dead"}
  /\ wState' = [wState EXCEPT ![w] = "dead"]
  /\ wCbs' = [wCbs EXCEPT ![o] = cbs]
  /\ IF empty
       THEN unsubscribe(o) /\ wsubs' = [wsubs EXCEPT ![subKey[o]] = 0]
       ELSE UNCHANGED <<muxVars, wsubs>>
  /\ UNCHANGED <<wKind, wObj, wGot, wLate>>

FreeWCbs == {w \in WCbs : wState[w] = "free"}
NextWCb == CHOOSE w \in FreeWCbs : \A v \in FreeWCbs : w <= v

WSubscribeEmployees(c) ==
  FreeWCbs # {} /\ subscribeToClusterEmployees(NextWCb, c) /\ UNCHANGED <<swrVars, auxVars>>
WSubscribeAttendance(c) ==
  FreeWCbs # {} /\ subscribeToClusterAttendance(NextWCb, c) /\ UNCHANGED <<swrVars, auxVars>>
WUnsubscribe(w) == wrapperUnsubscribe(w) /\ UNCHANGED <<swrVars, auxVars>>

\* Wrapper: components register and unregister with MongoDBService only.
NextWrap ==
  \/ \E c \in Clusters : WSubscribeEmployees(c)
  \/ \E c \in Clusters : WSubscribeAttendance(c)
  \/ \E w \in WCbs : WUnsubscribe(w)
  \/ \E i \in Subs : SocketReady(i)
  \/ \E i \in Subs, kd \in Kinds, ok \in BOOLEAN : InitialFetchDone(i, kd, ok)
  \/ \E c \in Clusters \cup {NoCluster} : PushEvent(c)
  \/ \E r \in refreshes, ok \in BOOLEAN : RefreshDone(r, ok)

SpecWrap == InitMux /\ [][NextWrap]_vars

\* ------------------------------------------------------ cache service
MapSize(m) == Cardinality({id \in Ids : m[id] # NoVal})

\* IDBObjectStore.put on a store with keyPath 'empId': the record replaces
\* the stored record of the same key
PutAll_KeepOld(store, records) == store \cup records

PutAll(store, records) ==
  {x \in store : \A r \in records : r.empId # x.empId} \cup records

\* the empId of every employee of a list
EmpIds(employees) == {e.empId : e \in employees}

\* cacheEmployees(employees, cluster) applied to the employees store
\* (mutation: the write is skipped)
cacheEmployees_Skip(store, employees, cluster) == store

cacheEmployees(store, employees, cluster) ==
  IF ~dbOpen \/ employees = {} THEN store
  ELSE PutAll(store, {[empId |-> id, cluster |-> cluster] : id \in employees})

\* cacheAttendanceRecords(records, cluster?) applied to the attendance store
cacheAttendanceRecords(store, records, cluster) ==
  IF ~dbOpen \/ MapSize(records) = 0 THEN store
  ELSE [id \in Ids |-> IF records[id] # NoVal
                         THEN [val |-> records[id],
                               tag |-> IF cluster = Undefined THEN "Unknown" ELSE cluster]
                         ELSE store[id]]

\* setLastSyncTime(key) applied to the metadata store at time t
setLastSyncTime(store, key, t) ==
  IF ~dbOpen THEN store ELSE [store EXCEPT ![key] = t]

getCachedEmployeesByCluster(cluster) ==
  IF ~dbOpen THEN {} ELSE {e \in cacheEmp : e.cluster = cluster}

getAllCachedEmployees ==
  IF ~dbOpen THEN {} ELSE cacheEmp

getCachedAttendanceByCluster(cluster) ==
  [id \in Ids |-> IF dbOpen /\ cacheAtt[id].val # NoVal /\ cacheAtt[id].tag = cluster
                    THEN cacheAtt[id].val ELSE NoVal]

\* getAllCachedEmployeesWithAttendance(): the attendanceRecord of every cached employee
getAllCachedEmployeesWithAttendance ==
  [id \in Ids |-> IF id \in EmpIds(getAllCachedEmployees) THEN cacheAtt[id].val ELSE NoVal]

\* ------------------------------------------------------ remote gateway
\* GET /employees and GET /employees/cluster/:cluster
RemoteEmployees(s) ==
  IF s = AllKey THEN remoteEmp ELSE {id \in remoteEmp : empCluster[id] = s}

\* GET /attendance and GET /attendance/cluster/:cluster
RemoteAttendance(s) ==
  [id \in Ids |-> IF s = AllKey \/ empCluster[id] = s THEN remoteAtt[id] ELSE NoVal]

\* -------------------------------------------- stale-while-revalidate
\* employees.map(emp => ({...emp, attendanceRecord: attendanceMap.get(emp.empId)}))
Merged(employees, attendanceMap) == [id \in employees |-> attendanceMap[id]]

\* cachedData of fetchEmployeesByCluster / fetchAllEmployees
CachedEmployeesFor(s) ==
  EmpIds(IF s = AllKey THEN getAllCachedEmployees ELSE getCachedEmployeesByCluster(s))

\* cachedData of fetchClusterAttendance / fetchAllAttendance
CachedAttendanceFor(s) ==
  IF s = AllKey THEN getAllCachedEmployeesWithAttendance ELSE getCachedAttendanceByCluster(s)

AttendanceSyncKey(s) ==
  IF s = AllKey THEN "all_attendance" ELSE IF s = "X" THEN "attendance_X" ELSE "attendance_Y"

\* notifyFresh of the two joined queries: the payloads onFresh is invoked with.
\* The cluster query waits for both freshDataReceived flags, the query over
\* everything only tests latestEmployees.length > 0.
notifyFresh(q, employees, attendance, fe, fa) ==
  IF qOnFresh[q] /\ (IF qScope[q] = AllKey THEN employees # {} ELSE fe /\ fa)
    THEN << Merged(employees, attendance) >>
    ELSE << >>

\* getEmployeesWithAttendanceByCluster(cluster, options) and
\* getAllEmployeesWithAttendance(options) up to the cache reads of the two
\* fetch functions.  The reads are local IndexedDB requests issued by the call
\* itself and complete before any network response of the call; each fetch
\* function then starts fetchFresh and either returns cachedData or awaits it.
\* With both values cached the Promise.all continuation runs here.
getEmployeesWithAttendance(q, s, forceRefresh, hasOnFresh) ==
  LET cE == CachedEmployeesFor(s)
      cA == CachedAttendanceFor(s)
      ef == cE # {} /\ ~forceRefresh
      af == MapSize(cA) > 0 /\ ~forceRefresh
  IN
  /\ qPhase[q] = "idle"
  /\ qPhase' = [qPhase EXCEPT ![q] = IF ef /\ af THEN "resolved" ELSE "running"]
  /\ qScope' = [qScope EXCEPT ![q] = s]
  /\ qForce' = [qForce EXCEPT ![q] = forceRefresh]
  /\ qOnFresh' = [qOnFresh EXCEPT ![q] = hasOnFresh]
  /\ eSt' = [eSt EXCEPT ![q] = "flight"]
  /\ aSt' = [aSt EXCEPT ![q] = "flight"]
  /\ eFast' = [eFast EXCEPT ![q] = ef]
  /\ aFast' = [aFast EXCEPT ![q] = af]
  /\ cachedE' = [cachedE EXCEPT ![q] = cE]
  /\ cachedA' = [cachedA EXCEPT ![q] = cA]
  /\ latestE' = [latestE EXCEPT ![q] = IF ef /\ af THEN cE ELSE {}]
  /\ latestA' = [latestA EXCEPT ![q] = IF ef /\ af THEN cA ELSE EmptyMap]
  /\ qResult' = [qResult EXCEPT ![q] = IF ef /\ af THEN Merged(cE, cA) ELSE << >>]
  /\ UNCHANGED <<dbOpen, cacheEmp, cacheAtt, lastSync, clock, remoteEmp, remoteAtt, empCluster,
                 netE, netA, freshE, freshA, qFresh>>

getEmployeesWithAttendanceByCluster(q, cluster, forceRefresh, hasOnFresh) ==
  getEmployeesWithAttendance(q, cluster, forceRefresh, hasOnFresh)

getAllEmployeesWithAttendance(q, forceRefresh, hasOnFresh) ==
  getEmployeesWithAttendance(q, AllKey, forceRefresh, hasOnFresh)

\* fetchAllEmployees.fetchFresh caches the response cluster by cluster
RECURSIVE CacheByCluster(_, _, _)
CacheByCluster(store, employees, clusters) ==
  IF clusters = {} THEN store
  ELSE LET c == CHOOSE x \in clusters : TRUE
           group == {id \in employees : empCluster[id] = c}
       IN CacheByCluster(cacheEmployees(store, group, c), employees, clusters \ {c})

RECURSIVE SyncClusters(_, _, _)
SyncClusters(store, clusters, t) ==
  IF clusters = {} THEN store
  ELSE LET c == CHOOSE x \in clusters : TRUE
       IN SyncClusters(setLastSyncTime(store, c, t), clusters \ {c}, t)

\* fetchFresh of fetchEmployeesByCluster / fetchAllEmployees settles.  On
\* success: cache write, sync time, the onFresh callback of the joined query
\* (latestEmployees, flag, notifyFresh) and, when the fetch function awaited
\* fetchFresh, the resolution of its promise; the Promise.all continuation runs
\* in the same task when the other promise is resolved already.  On failure
\* the awaited promise rejects and so does Promise.all; a background failure
\* is only logged.
EmployeesFetchSettles(q, ok) ==
  LET s == qScope[q]
      employees == RemoteEmployees(s)
      groups == {empCluster[id] : id \in employees}
      t == clock + 1
      cont == ~eFast[q] /\ (aFast[q] \/ aSt[q] = "ok") /\ qPhase[q] = "running"
      aRet == IF aFast[q] THEN cachedA[q] ELSE netA[q]
      fe == IF s = AllKey THEN FALSE ELSE TRUE
  IN
  /\ eSt[q] = "flight"
  /\ IF ok
       THEN /\ eSt' = [eSt EXCEPT ![q] = "ok"]
            /\ netE' = [netE EXCEPT ![q] = employees]
            /\ cacheEmp' = IF s = AllKey THEN CacheByCluster(cacheEmp, employees, groups)
                                         ELSE cacheEmployees(cacheEmp, employees, s)
            /\ lastSync' = IF s = AllKey
                             THEN setLastSyncTime(SyncClusters(lastSync, groups, t), "all", t)
                             ELSE setLastSyncTime(lastSync, s, t)
            /\ clock' = t
            /\ freshE' = [freshE EXCEPT ![q] = fe]
            /\ qFresh' = [qFresh EXCEPT ![q] =
                            @ \o notifyFresh(q, employees, latestA[q], fe, freshA[q])]
            /\ latestE' = [latestE EXCEPT ![q] = employees]
            /\ latestA' = [latestA EXCEPT ![q] = IF cont THEN aRet ELSE @]
            /\ qPhase' = [qPhase EXCEPT ![q] = IF cont THEN "resolved" ELSE @]
            /\ qResult' = [qResult EXCEPT ![q] = IF cont THEN Merged(employees, aRet) ELSE @]
       ELSE /\ eSt' = [eSt EXCEPT ![q] = "fail"]
            /\ qPhase' = [qPhase EXCEPT ![q] =
                            IF ~eFast[q] /\ @ = "running" THEN "rejected" ELSE @]
            /\ UNCHANGED <<netE, cacheEmp, lastSync, clock, freshE, qFresh,
                           latestE, latestA, qResult>>
  /\ UNCHANGED <<dbOpen, cacheAtt, remoteEmp, remoteAtt, empCluster, qScope, qForce, qOnFresh,
                 aSt, eFast, aFast, cachedE, cachedA, netA, freshA>>

\* fetchFresh of fetchClusterAttendance / fetchAllAttendance settles
\* (fetchAllAttendance caches without a cluster argument).
AttendanceFetchSettles(q, ok) ==
  LET s == qScope[q]
      attendanceMap == RemoteAttendance(s)
      t == clock + 1
      cont == ~aFast[q] /\ (eFast[q] \/ eSt[q] = "ok") /\ qPhase[q] = "running"
      eRet == IF eFast[q] THEN cachedE[q] ELSE netE[q]
      fa == IF s = AllKey THEN FALSE ELSE TRUE
  IN
  /\ aSt[q] = "flight"
  /\ IF ok
       THEN /\ aSt' = [aSt EXCEPT ![q] = "ok"]
            /\ netA' = [netA EXCEPT ![q] = attendanceMap]
            /\ cacheAtt' = cacheAttendanceRecords(cacheAtt, attendanceMap,
                                                  IF s = AllKey THEN Undefined ELSE s)
            /\ lastSync' = setLastSyncTime(lastSync, AttendanceSyncKey(s), t)
            /\ clock' = t
            /\ freshA' = [freshA EXCEPT ![q] = fa]
            /\ qFresh' = [qFresh EXCEPT ![q] =
                            @ \o notifyFresh(q, latestE[q], attendanceMap, freshE[q], fa)]
            /\ latestA' = [latestA EXCEPT ![q] = attendanceMap]
            /\ latestE' = [latestE EXCEPT ![q] = IF cont THEN eRet ELSE @]
            /\ qPhase' = [qPhase EXCEPT ![q] = IF cont THEN "resolved" ELSE @]
            /\ qResult' = [qResult EXCEPT ![q] = IF cont THEN Merged(eRet, attendanceMap) ELSE @]
       ELSE /\ aSt' = [aSt EXCEPT ![q] = "fail"]
            /\ qPhase' = [qPhase EXCEPT ![q] =
                            IF ~aFast[q] /\ @ = "running" THEN "rejected" ELSE @]
            /\ UNCHANGED <<netA, cacheAtt, lastSync, clock, freshA, qFresh,
                           latestE, latestA, qResult>>
  /\ UNCHANGED <<dbOpen, cacheEmp, remoteEmp, remoteAtt, empCluster, qScope, qForce, qOnFresh,
                 eSt, eFast, aFast, cachedE, cachedA, netE, freshE>>

\* The cache a session starts with is what earlier sessions left in IndexedDB:
\* employees under their cluster, attendance records under their cluster.
\* Record contents are interchangeable, so a left-over record holds "v1" and
\* the backend holds the same, other contents or none.  The backend holds
\* attendance records of its employees only.
InitSwr ==
  /\ dbOpen \in BOOLEAN
  /\ cacheEmp \in SUBSET {[empId |-> id, cluster |-> Home[id]] : id \in Ids}
  /\ cacheAtt \in [Ids -> {NoRecord} \cup [val : {"v1"}, tag : Partitions]]
  /\ \A id \in Ids : cacheAtt[id] # NoRecord => cacheAtt[id].tag = Home[id]
  /\ ~dbOpen => (cacheEmp = {} /\ \A id \in Ids : cacheAtt[id] = NoRecord)
  /\ lastSync = [k \in SyncKeys |-> 0]
  /\ clock = 0
  /\ remoteEmp \in SUBSET Ids
  /\ remoteAtt \in [Ids -> {NoVal} \cup Contents]
  /\ \A id \in Ids : id \notin remoteEmp => remoteAtt[id] = NoVal
  /\ empCluster = Home
  /\ InitQVars

IdleQueries == {q \in Queries : qPhase[q] = "idle"}
NextQuery == CHOOSE q \in IdleQueries : \A p \in IdleQueries : q <= p
\* a call is made once the previous call has settled
CanQuery ==
  /\ IdleQueries # {}
  /\ \A p \in Queries : p < NextQuery => qPhase[p] \in {"resolved", "rejected"}

QueryCluster(c, forceRefresh, hasOnFresh) ==
  /\ CanQuery /\ NextQuery <= MaxQueries
  /\ getEmployeesWithAttendanceByCluster(NextQuery, c, forceRefresh, hasOnFresh)
  /\ UNCHANGED <<muxVars, wrapVars, auxVars>>

QueryAll(forceRefresh, hasOnFresh) ==
  /\ CanQuery /\ NextQuery <= MaxQueries
  /\ getAllEmployeesWithAttendance(NextQuery, forceRefresh, hasOnFresh)
  /\ UNCHANGED <<muxVars, wrapVars, auxVars>>

EmployeesResponse(q, ok) == EmployeesFetchSettles(q, ok) /\ UNCHANGED <<muxVars, wrapVars, auxVars>>
AttendanceResponse(q, ok) == AttendanceFetchSettles(q, ok) /\ UNCHANGED <<muxVars, wrapVars, auxVars>>

InitSWR == InitMuxVars /\ InitWrapVars /\ InitSwr /\ InitAuxIdle

\* Joined cache-first queries over the cache and the remote gateway.
NextSWR ==
  \/ \E c \in Scopes \ {AllKey}, f \in BOOLEAN, cb \in BOOLEAN : QueryCluster(c, f, cb)
  \/ \E f \in BOOLEAN, cb \in BOOLEAN : QueryAll(f, cb)
  \/ \E q \in Queries, ok \in BOOLEAN : EmployeesResponse(q, ok)
  \/ \E q \in Queries, ok \in BOOLEAN : AttendanceResponse(q, ok)

SpecSWR == InitSWR /\ [][NextSWR]_vars

\* ------------------------------------------- the employees store, by cluster
\* cacheEmployees(employees, cluster) is called
CacheEmployeesCalled(employees, cluster) ==
  /\ partWrites < MaxWrites
  /\ partWrites' = partWrites + 1
  /\ cacheEmp' = cacheEmployees(cacheEmp, employees, cluster)
  /\ UNCHANGED <<partAll, partBy>>
  /\ UNCHANGED partOther

\* getAllCachedEmployees() is called
ReadAllCached ==
  /\ partAll' = getAllCachedEmployees
  /\ UNCHANGED <<partWrites, partBy, cacheEmp>>
  /\ UNCHANGED partOther

\* getCachedEmployeesByCluster(cluster) is called
ReadCachedByCluster(cluster) ==
  /\ partBy' = [partBy EXCEPT ![cluster] = getCachedEmployeesByCluster(cluster)]
  /\ UNCHANGED <<partWrites, partAll, cacheEmp>>
  /\ UNCHANGED partOther

\* an empty cache with the database open
InitPart ==
  /\ InitMuxVars /\ InitWrapVars
  /\ InitRaceIdle /\ InitConnIdle /\ InitRetryIdle /\ InitSaveIdle /\ InitInitIdle
  /\ InitPartIdle /\ InitJoinIdle
  /\ InitLateIdle
  /\ dbOpen = TRUE
  /\ cacheEmp = {}
  /\ cacheAtt = [id \in Ids |-> NoRecord]
  /\ lastSync = [k \in SyncKeys |-> 0]
  /\ clock = 0
  /\ remoteEmp = {}
  /\ remoteAtt = EmptyMap
  /\ empCluster = Home
  /\ InitQVars

NextPart ==
  \/ \E employees \in SUBSET Ids, cluster \in Partitions :
       CacheEmployeesCalled(employees, cluster)
  \/ ReadAllCached
  \/ \E cluster \in Partitions : ReadCachedByCluster(cluster)

SpecPart == InitPart /\ [][NextPart]_vars

\* --------------------------------------------------------- joined views
\* attendanceMap.get(empId): undefined for an id the map does not have.  The
\* values of the map are record objects, so `|| undefined` changes none.
MapGet(attendanceMap, empId) ==
  IF empId \in DOMAIN attendanceMap THEN attendanceMap[empId] ELSE NoVal

\* (mutation: an inner join, employees without a record are left out)
JoinRows_Inner(employees, attendanceMap) ==
  LET having == SelectSeq(employees, LAMBDA e : e \in DOMAIN attendanceMap)
  IN [i \in 1..Len(having) |-> [empId |-> having[i],
                                attendanceRecord |-> attendanceMap[having[i]]]]

\* employees.map(employee => ({...employee,
\*                             attendanceRecord: attendanceMap.get(employee.empId) || undefined}))
JoinRows(employees, attendanceMap) ==
  [i \in 1..Len(employees) |-> [empId |-> employees[i],
                                attendanceRecord |-> MapGet(attendanceMap, employees[i])]]

\* the employees of a list, and a Map as the gateway merge takes it
ListIds(employees) == {employees[i] : i \in 1..Len(employees)}

AsTotalMap(attendanceMap) == [id \in Ids |-> MapGet(attendanceMap, id)]

\* getCachedEmployeesWithAttendance / getAllCachedEmployeesWithAttendance
\* join the employees and the attendance map they have read
CacheJoin ==
  /\ joinRows = << >>
  /\ joinRows' = << JoinRows(joinE, joinM) >>
  /\ UNCHANGED <<joinE, joinM, joinMerged>>
  /\ UNCHANGED joinOther

\* getEmployeesWithAttendanceByCluster merges the two fetched results
GatewayMerge ==
  /\ joinMerged = << >>
  /\ joinMerged' = << Merged(ListIds(joinE), AsTotalMap(joinM)) >>
  /\ UNCHANGED <<joinE, joinM, joinRows>>
  /\ UNCHANGED joinOther

\* every employee list up to MaxJoinLen and every attendance map
InitJoin ==
  /\ InitMuxVars /\ InitWrapVars
  /\ InitRaceIdle /\ InitConnIdle /\ InitRetryIdle /\ InitSaveIdle /\ InitInitIdle
  /\ InitPartIdle /\ InitLateIdle
  /\ dbOpen = TRUE
  /\ cacheEmp = {}
  /\ cacheAtt = [id \in Ids |-> NoRecord]
  /\ lastSync = [k \in SyncKeys |-> 0]
  /\ clock = 0
  /\ remoteEmp = {}
  /\ remoteAtt = EmptyMap
  /\ empCluster = Home
  /\ InitQVars
  /\ joinE \in UNION {[1..n -> Ids] : n \in 0..MaxJoinLen}
  /\ joinM \in UNION {[S -> Contents] : S \in SUBSET Ids}
  /\ joinRows = << >>
  /\ joinMerged = << >>

NextJoin == CacheJoin \/ GatewayMerge

SpecJoin == InitJoin /\ [][NextJoin]_vars

\* ------------------------------------- attendance records by employee ids
\* empIds.slice(i, i + BATCH_SIZE), the ids being 1..n in list order
Slice(n, i) == {k \in 1..n : i < k /\ k <= i + BATCH_SIZE}

\* The batch fetch is called.  getAttendanceRecordsForEmployees returns an
\* empty map for no ids and otherwise queries the first slice.
\* fetchAttendanceByEmployeeIds reads the cached record of every id and
\* returns them when none is missing (and there is one); otherwise it posts
\* all the ids to /attendance/batch in one request.
BatchFetchCalled ==
  /\ bSt = "start"
  /\ IF bGw = "firestore"
       THEN IF bIds = 0
              THEN /\ bSt' = "done"
                   /\ UNCHANGED <<bCalls, bFromCache>>
              ELSE /\ bSt' = "request"
                   /\ bCalls' = << Slice(bIds, 0) >>
                   /\ UNCHANGED bFromCache
       ELSE IF ~bForce /\ bCached /\ bIds > 0
              THEN /\ bSt' = "done"
                   /\ bFromCache' = TRUE
                   /\ UNCHANGED bCalls
              ELSE /\ bSt' = "request"
                   /\ bCalls' = << 1..bIds >>
                   /\ UNCHANGED bFromCache
  /\ UNCHANGED <<bGw, bIds, bForce, bCached, bI>>
  /\ UNCHANGED batchOther

\* The request in flight settles.  getAttendanceRecordsForEmployees logs a
\* failed batch and goes on with the next slice; fetchAttendanceByEmployeeIds
\* returns the records of the response, or rejects with the error of fetchAPI.
BatchRequestSettles(ok) ==
  /\ bSt = "request"
  /\ IF bGw = "firestore"
       THEN /\ bI' = bI + BATCH_SIZE
            /\ IF bI' < bIds
                 THEN /\ bCalls' = Append(bCalls, Slice(bIds, bI'))
                      /\ UNCHANGED bSt
                 ELSE /\ bSt' = "done"
                      /\ UNCHANGED bCalls
       ELSE /\ bSt' = IF ok THEN "done" ELSE "failed"
            /\ UNCHANGED <<bI, bCalls>>
  /\ UNCHANGED <<bGw, bIds, bForce, bCached, bFromCache>>
  /\ UNCHANGED batchOther

\* a batch fetch of up to MaxBatchIds ids through either gateway
InitBatch ==
  /\ InitEarlyIdle /\ InitLateExcept("batch")
  /\ bGw \in Gateways
  /\ bIds \in 0..MaxBatchIds
  /\ bForce \in BOOLEAN
  /\ bCached \in BOOLEAN
  /\ bGw = "firestore" => ~bForce /\ ~bCached
  /\ bSt = "start"
  /\ bI = 0
  /\ bCalls = << >>
  /\ bFromCache = FALSE

NextBatch ==
  \/ BatchFetchCalled
  \/ \E ok \in BOOLEAN : BatchRequestSettles(ok)

SpecBatch == InitBatch /\ [][NextBatch]_vars

\* ---------------------------------- backend configuration and the socket
\* setBackendUrl / setApiKey: the new values are written to localStorage;
\* the socket is left as it is ("socket will reconnect on next use").
SetBackendConfig(c) ==
  /\ nConfig < MaxConfigs
  /\ c # config
  /\ config' = c
  /\ nConfig' = nConfig + 1
  /\ UNCHANGED <<curCred, cSocket, cSockCred, cSockOpen, iSt, iCred, iVia, iSock>>
  /\ UNCHANGED credOther

\* initializeSocket() up to its first await, called from a subscribe function
\* or from reconnectSocket (which first disconnects and forgets the socket):
\* a socket opened with another URL or key is disconnected and forgotten; an
\* existing socket is returned; otherwise the URL and key are stored and the
\* call awaits the import of socket.io-client.
InitializeSocketCalled(j, via) ==
  LET s0 == IF via = "reconnect" THEN 0 ELSE cSocket
      changed == s0 # 0 /\ curCred # config
      s1 == IF changed THEN 0 ELSE s0
      closed == (IF via = "reconnect" /\ cSocket # 0 THEN {cSocket} ELSE {})
                  \cup (IF changed THEN {s0} ELSE {})
  IN
  /\ iSt[j] = "idle"
  /\ \A x \in InitCalls : iSt[x] = "idle" => j <= x
  /\ iVia' = [iVia EXCEPT ![j] = via]
  /\ iCred' = [iCred EXCEPT ![j] = config]
  /\ cSockOpen' = cSockOpen \ closed
  /\ cSocket' = s1
  /\ IF s1 # 0
       THEN /\ iSt' = [iSt EXCEPT ![j] = "done"]
            /\ iSock' = [iSock EXCEPT ![j] = s1]
            /\ UNCHANGED curCred
       ELSE /\ iSt' = [iSt EXCEPT ![j] = "import"]
            /\ curCred' = config
            /\ UNCHANGED iSock
  /\ UNCHANGED <<config, nConfig, cSockCred>>
  /\ UNCHANGED credOther

\* The import of call j has resolved: socket = io(newSocketUrl, {auth:
\* {apiKey: newApiKey}}) with the values the call read when it started; the
\* new socket (named after the call) is stored and returned.
SocketCreated(j) ==
  /\ iSt[j] = "import"
  /\ iSt' = [iSt EXCEPT ![j] = "done"]
  /\ cSockCred' = [cSockCred EXCEPT ![j] = iCred[j]]
  /\ cSockOpen' = cSockOpen \cup {j}
  /\ cSocket' = j
  /\ iSock' = [iSock EXCEPT ![j] = j]
  /\ UNCHANGED <<config, nConfig, curCred, iCred, iVia>>
  /\ UNCHANGED credOther

InitCred == InitEarlyIdle /\ InitLateExcept("cred") /\ InitCredIdle

NextCred ==
  \/ \E c \in Creds : SetBackendConfig(c)
  \/ \E j \in InitCalls, via \in {"subscribe", "reconnect"} : InitializeSocketCalled(j, via)
  \/ \E j \in InitCalls : SocketCreated(j)

SpecCred == InitCred /\ [][NextCred]_vars

\* ------------------------------------------- push events of any partition
\* The server pushes 'attendanceUpdated' for a record of partition c, which
\* may be one nobody here has subscribed to; the scope of the event is kept.
\* The handlers keep no state from one event to the next, so a behaviour
\* has one such event, at any point of the life cycle.
ScopedPushEvent(c) ==
  /\ nEvents = 0
  /\ attendanceUpdated(c)
  /\ evScope' = [evScope EXCEPT ![nEvents + 1] = c]
  /\ UNCHANGED <<raceVars, connVars, retryVars, saveVars, initVars, partVars, joinVars>>
  /\ UNCHANGED <<batchVars, credVars, failVars, clearVars>>

NextScope ==
  \/ \E k \in Keys : Subscribe(k, MaxScopeSubs)
  \/ \E i \in Subs : SocketReady(i)
  \/ \E i \in Subs : Unsubscribe(i)
  \/ \E c \in Partitions \cup {NoCluster} : ScopedPushEvent(c)
  \/ \E r \in refreshes, ok \in BOOLEAN : RefreshDone(r, ok)

SpecScope == InitMux /\ [][NextScope]_vars

\* ------------------------------------------------- CacheService.init
\* `if (this.initPromise) return this.initPromise`
SharesInitPromise_Never(p) == FALSE

SharesInitPromise(p) == p # 0

\* The body of a cache method after `await this.init()` for operation o, with
\* db the value of this.db !== null: without db an empty result or a no-op;
\* otherwise this.db.transaction(...) inside the promise executor, which
\* throws on a closed connection and so rejects the promise.
AfterInit(o, kind, db) ==
  IF ~db THEN [st |-> "resolved", res |-> IF kind \in CacheReads THEN "empty" ELSE "noop"]
  ELSE IF dbClosed THEN [st |-> "rejected", res |-> "none"]
  ELSE [st |-> "request", res |-> "none"]

\* A cache method is called: init() and, when init does not have to wait,
\* the body of the method.  init returns at once with this.db set, returns
\* the memoized promise, or creates the promise and opens the database
\* (without window the new promise is resolved at once).
CacheOpCalled(o, kind) ==
  LET shared == ~dbOpen /\ SharesInitPromise(initPromise)
      create == ~dbOpen /\ ~SharesInitPromise(initPromise)
      p == IF dbOpen THEN 0 ELSE IF shared THEN initPromise ELSE nPromises + 1
      waits == (shared /\ p \notin resolvedInits) \/ (create /\ hasWindow)
      next == AfterInit(o, kind, dbOpen)
  IN
  /\ opSt[o] = "idle"
  /\ \A x \in CacheOps : opSt[x] = "idle" => o <= x
  /\ opKind' = [opKind EXCEPT ![o] = kind]
  /\ opAwaits' = [opAwaits EXCEPT ![o] = p]
  /\ opSt' = [opSt EXCEPT ![o] = IF waits THEN "awaiting" ELSE next.st]
  /\ opResult' = [opResult EXCEPT ![o] = IF waits THEN "none" ELSE next.res]
  /\ IF create
       THEN /\ initPromise' = p
            /\ nPromises' = p
            /\ IF hasWindow
                 THEN /\ openCount' = openCount + 1
                      /\ pendingOpens' = pendingOpens \cup {p}
                      /\ UNCHANGED resolvedInits
                 ELSE /\ resolvedInits' = resolvedInits \cup {p}
                      /\ UNCHANGED <<openCount, pendingOpens>>
       ELSE UNCHANGED <<initPromise, nPromises, resolvedInits, openCount, pendingOpens>>
  /\ UNCHANGED <<hasWindow, dbClosed, dbOpen>>
  /\ UNCHANGED initOther

\* The open request of init promise p settles: onsuccess sets this.db,
\* onerror leaves it null; both resolve the promise, and every operation
\* awaiting it goes on with the body of its method.
OpenSettles(p, ok) ==
  LET db == dbOpen \/ ok
      woken == {o \in CacheOps : opSt[o] = "awaiting" /\ opAwaits[o] = p}
  IN
  /\ p \in pendingOpens
  /\ pendingOpens' = pendingOpens \ {p}
  /\ resolvedInits' = resolvedInits \cup {p}
  /\ dbOpen' = db
  /\ opSt' = [o \in CacheOps |-> IF o \in woken THEN AfterInit(o, opKind[o], db).st
                                                ELSE opSt[o]]
  /\ opResult' = [o \in CacheOps |-> IF o \in woken THEN AfterInit(o, opKind[o], db).res
                                                    ELSE opResult[o]]
  /\ UNCHANGED <<hasWindow, initPromise, nPromises, openCount, dbClosed, opKind, opAwaits>>
  /\ UNCHANGED initOther

\* The transaction of operation o ends.  A read resolves in request.onsuccess
\* and in request.onerror (which an abort fires as well); a write resolves in
\* transaction.oncomplete and transaction.onerror and has no abort handler.
StorageRequestSettles(o, outcome) ==
  LET read == opKind[o] \in CacheReads
      st == IF ~read /\ outcome = "abort" THEN "hung" ELSE "resolved"
      res == IF outcome = "complete" THEN (IF read THEN "data" ELSE "written")
             ELSE IF read THEN "empty"
             ELSE IF outcome = "error" THEN "noop" ELSE "none"
  IN
  /\ opSt[o] = "request"
  /\ opSt' = [opSt EXCEPT ![o] = st]
  /\ opResult' = [opResult EXCEPT ![o] = res]
  /\ UNCHANGED <<hasWindow, initPromise, nPromises, resolvedInits, openCount, pendingOpens,
                 dbClosed, opKind, opAwaits, dbOpen>>
  /\ UNCHANGED initOther

\* the browser closes the database connection (site data cleared)
ConnectionClosed ==
  /\ dbOpen /\ ~dbClosed
  /\ dbClosed' = TRUE
  /\ UNCHANGED <<hasWindow, initPromise, nPromises, resolvedInits, openCount, pendingOpens,
                 opSt, opKind, opAwaits, opResult, dbOpen>>
  /\ UNCHANGED initOther

\* a cache service that has not been used yet
InitInit ==
  /\ InitMuxVars /\ InitWrapVars
  /\ InitRaceIdle /\ InitConnIdle /\ InitRetryIdle /\ InitSaveIdle
  /\ InitPartIdle /\ InitJoinIdle
  /\ InitLateIdle
  /\ dbOpen = FALSE
  /\ cacheEmp = {}
  /\ cacheAtt = [id \in Ids |-> NoRecord]
  /\ lastSync = [k \in SyncKeys |-> 0]
  /\ clock = 0
  /\ remoteEmp = {}
  /\ remoteAtt = EmptyMap
  /\ empCluster = Home
  /\ InitQVars
  /\ hasWindow \in BOOLEAN
  /\ initPromise = 0
  /\ nPromises = 0
  /\ resolvedInits = {}
  /\ openCount = 0
  /\ pendingOpens = {}
  /\ dbClosed = FALSE
  /\ opSt = [o \in CacheOps |-> "idle"]
  /\ opKind = [o \in CacheOps |-> "none"]
  /\ opAwaits = [o \in CacheOps |-> 0]
  /\ opResult = [o \in CacheOps |-> "none"]

NextInit ==
  \/ \E o \in CacheOps, kind \in CacheReads \cup CacheWrites : CacheOpCalled(o, kind)
  \/ \E p \in pendingOpens, ok \in BOOLEAN : OpenSettles(p, ok)
  \/ \E o \in CacheOps, outcome \in TxOutcomes : StorageRequestSettles(o, outcome)
  \/ ConnectionClosed

SpecInit == InitInit /\ [][NextInit]_vars

\* ------------------------------------------- the same query, repeated
\* The joined query for scope s is called again with the same arguments once
\* the previous call has settled; nothing else touches cache or backend.
RepeatQuery(s, forceRefresh) ==
  /\ CanQuery /\ NextQuery <= MaxSeqQueries
  /\ \A p \in Queries : p < NextQuery => (qScope[p] = s /\ qForce[p] = forceRefresh)
  /\ getEmployeesWithAttendance(NextQuery, s, forceRefresh, FALSE)
  /\ UNCHANGED <<muxVars, wrapVars, auxVars>>

NextTwice ==
  \/ \E s \in Scopes, f \in BOOLEAN : RepeatQuery(s, f)
  \/ \E q \in Queries, ok \in BOOLEAN : EmployeesResponse(q, ok)
  \/ \E q \in Queries, ok \in BOOLEAN : AttendanceResponse(q, ok)

SpecTwice == InitSWR /\ [][NextTwice]_vars

\* ------------------------------------------- racing fetchFresh calls
\* The rows GET /employees and GET /employees/cluster/:cluster answer with
EmployeeRows(s) == {[empId |-> id, cluster |-> empCluster[id]] : id \in RemoteEmployees(s)}

IdleFetches == {f \in Fetches : fSt[f] = "idle"}

\* fetchFresh() of one of the four fetch functions sends its request
RaceStart(f) ==
  /\ fSt[f] = "idle"
  /\ \A g \in IdleFetches : f <= g
  /\ fSt' = [fSt EXCEPT ![f] = "sent"]
  /\ UNCHANGED <<raceScope, raceKind, fResp, fTodo, arrivals, nChanges>>
  /\ UNCHANGED <<swrVars, raceOther>>

\* the backend answers the request from what it holds at that moment
RaceServed(f) ==
  /\ fSt[f] = "sent"
  /\ fSt' = [fSt EXCEPT ![f] = "served"]
  /\ fResp' = [fResp EXCEPT ![f] =
                 IF raceKind = "emp"
                   THEN [e |-> EmployeeRows(raceScope), a |-> EmptyMap]
                   ELSE [e |-> {}, a |-> RemoteAttendance(raceScope)]]
  /\ UNCHANGED <<raceScope, raceKind, fTodo, arrivals, nChanges>>
  /\ UNCHANGED <<swrVars, raceOther>>

\* fetchAllEmployees.fetchFresh caches one clusterGroups entry: cacheEmployees
\* and setLastSyncTime(cluster); after the last entry setLastSyncTime('all').
\* Every cache call is awaited, so other tasks run between two entries.
CacheGroup(f, c, todo) ==
  LET emps == {r \in fResp[f].e : r.cluster = c}
      t == clock + 1
      synced == setLastSyncTime(lastSync, c, t)
  IN
  /\ cacheEmp' = cacheEmployees(cacheEmp, EmpIds(emps), c)
  /\ lastSync' = IF todo = {c} THEN setLastSyncTime(synced, "all", t) ELSE synced
  /\ clock' = t
  /\ fTodo' = [fTodo EXCEPT ![f] = todo \ {c}]
  /\ fSt' = [fSt EXCEPT ![f] = IF todo = {c} THEN "done" ELSE "writing"]
  /\ UNCHANGED cacheAtt

\* fetchAPI resolves in fetchFresh: the response is cached.  The two cluster
\* functions and fetchAllAttendance cache it in one transaction;
\* fetchAllEmployees groups it by Employee.cluster and caches the first entry
\* (c, in the order of the response).
RaceArrives(f, c) ==
  LET resp == fResp[f]
      groups == {r.cluster : r \in resp.e}
      t == clock + 1
  IN
  /\ fSt[f] = "served"
  /\ arrivals' = Append(arrivals, f)
  /\ IF raceKind = "att"
       THEN /\ c = NoCluster
            /\ cacheAtt' = cacheAttendanceRecords(cacheAtt, resp.a,
                              IF raceScope = AllKey THEN Undefined ELSE raceScope)
            /\ lastSync' = setLastSyncTime(lastSync, AttendanceSyncKey(raceScope), t)
            /\ clock' = t
            /\ fSt' = [fSt EXCEPT ![f] = "done"]
            /\ UNCHANGED <<cacheEmp, fTodo>>
       ELSE IF raceScope # AllKey
       THEN /\ c = NoCluster
            /\ cacheEmp' = cacheEmployees(cacheEmp, EmpIds(resp.e), raceScope)
            /\ lastSync' = setLastSyncTime(lastSync, raceScope, t)
            /\ clock' = t
            /\ fSt' = [fSt EXCEPT ![f] = "done"]
            /\ UNCHANGED <<cacheAtt, fTodo>>
       ELSE IF groups = {}
       THEN /\ c = NoCluster
            /\ lastSync' = setLastSyncTime(lastSync, "all", t)
            /\ clock' = t
            /\ fSt' = [fSt EXCEPT ![f] = "done"]
            /\ UNCHANGED <<cacheEmp, cacheAtt, fTodo>>
       ELSE /\ c \in groups
            /\ CacheGroup(f, c, groups)
  /\ UNCHANGED <<raceScope, raceKind, fResp, nChanges>>
  /\ UNCHANGED <<dbOpen, remoteEmp, remoteAtt, empCluster, qVars>>
  /\ UNCHANGED raceOther

\* the loop of fetchAllEmployees.fetchFresh resumes with its next entry
RaceCachesNext(f, c) ==
  /\ fSt[f] = "writing"
  /\ c \in fTodo[f]
  /\ CacheGroup(f, c, fTodo[f])
  /\ UNCHANGED <<raceScope, raceKind, fResp, arrivals, nChanges>>
  /\ UNCHANGED <<dbOpen, remoteEmp, remoteAtt, empCluster, qVars>>
  /\ UNCHANGED raceOther

\* another client saves an attendance record at the backend
OtherClientMarks(id, v) ==
  /\ nChanges < MaxChanges
  /\ id \in remoteEmp /\ remoteAtt[id] # v
  /\ remoteAtt' = [remoteAtt EXCEPT ![id] = v]
  /\ nChanges' = nChanges + 1
  /\ UNCHANGED <<raceScope, raceKind, fSt, fResp, fTodo, arrivals>>
  /\ UNCHANGED <<dbOpen, cacheEmp, cacheAtt, lastSync, clock, remoteEmp, empCluster, qVars>>
  /\ UNCHANGED raceOther

\* an employee is moved to another cluster at the backend
EmployeeMoved(id, c) ==
  /\ nChanges < MaxChanges
  /\ id \in remoteEmp /\ empCluster[id] # c
  /\ empCluster' = [empCluster EXCEPT ![id] = c]
  /\ nChanges' = nChanges + 1
  /\ UNCHANGED <<raceScope, raceKind, fSt, fResp, fTodo, arrivals>>
  /\ UNCHANGED <<dbOpen, cacheEmp, cacheAtt, lastSync, clock, remoteEmp, remoteAtt, qVars>>
  /\ UNCHANGED raceOther

\* An empty cache, a backend holding every employee in its cluster, and
\* fetches of one kind for one scope.
InitRace ==
  /\ InitMuxVars /\ InitWrapVars /\ InitConnIdle /\ InitRetryIdle /\ InitSaveIdle
  /\ InitInitIdle /\ InitPartIdle /\ InitJoinIdle
  /\ InitLateIdle
  /\ dbOpen = TRUE
  /\ cacheEmp = {}
  /\ cacheAtt = [id \in Ids |-> NoRecord]
  /\ lastSync = [k \in SyncKeys |-> 0]
  /\ clock = 0
  /\ remoteEmp = Ids
  /\ remoteAtt \in [Ids -> {NoVal, "v1"}]
  /\ empCluster = Home
  /\ InitQVars
  /\ raceScope \in Scopes
  /\ raceKind \in Kinds
  /\ fSt = [f \in Fetches |-> "idle"]
  /\ fResp = [f \in Fetches |-> NoResponse]
  /\ fTodo = [f \in Fetches |-> {}]
  /\ arrivals = << >>
  /\ nChanges = 0

NextRace ==
  \/ \E f \in Fetches : RaceStart(f)
  \/ \E f \in Fetches : RaceServed(f)
  \/ \E f \in Fetches, c \in Partitions \cup {NoCluster} : RaceArrives(f, c)
  \/ \E f \in Fetches, c \in Partitions : RaceCachesNext(f, c)
  \/ \E id \in Ids, v \in Contents : OtherClientMarks(id, v)
  \/ \E id \in Ids, c \in Partitions : EmployeeMoved(id, c)

SpecRace == InitRace /\ [][NextRace]_vars

\* ------------------------------------------------ retry and breaker
\* retryCondition of withFirestoreRetry
firestoreRetryCondition(code) ==
  code \in {"unavailable", "deadline-exceeded", "internal", "unknown", "resource-exhausted"}

\* the catch block of retryWithBackoff as withFirestoreRetry configures it:
\* throw RetryError or sleep and try again
retryWithBackoff(attempt, code) ==
  IF attempt = MaxAttempts \/ ~firestoreRetryCondition(code) THEN "throw" ELSE "sleep"

\* the catch block of fetchAPI: log and rethrow
fetchAPI(code) == "throw"

IdleCalls == {c \in Calls : callSt[c] = "idle"}

\* Attempt n of a FirestoreService method: firestoreCircuitBreaker.execute
\* throws while the breaker is open and the recovery timeout has not elapsed
\* (the error has no code, so retryWithBackoff rethrows); otherwise the
\* request is sent.
FirestoreAttempt(c, n) ==
  /\ callAttempts' = [callAttempts EXCEPT ![c] = n]
  /\ IF cbState = "open" /\ ~cbElapsed
       THEN /\ callErrs' = [callErrs EXCEPT ![c] = Append(@, BreakerOpen)]
            /\ callSt' = [callSt EXCEPT ![c] =
                            IF retryWithBackoff(n, BreakerOpen) = "throw"
                              THEN "failed" ELSE "sleeping"]
            /\ UNCHANGED cbState
       ELSE /\ callSt' = [callSt EXCEPT ![c] = "flight"]
            /\ cbState' = IF cbState = "open" THEN "half-open" ELSE cbState
            /\ UNCHANGED callErrs
  /\ UNCHANGED <<cbFailures, cbElapsed>>

\* A gateway operation is called: mongodb-service sends its request through
\* fetchAPI, a FirestoreService method starts attempt 1 of withFirestoreRetry.
GatewayCall(c, op, gw) ==
  /\ callSt[c] = "idle"
  /\ \A d \in IdleCalls : c <= d
  /\ callOp' = [callOp EXCEPT ![c] = op]
  /\ callGw' = [callGw EXCEPT ![c] = gw]
  /\ IF gw = "mongodb"
       THEN /\ callSt' = [callSt EXCEPT ![c] = "flight"]
            /\ callAttempts' = [callAttempts EXCEPT ![c] = 1]
            /\ UNCHANGED <<callErrs, cbFailures, cbState, cbElapsed>>
       ELSE FirestoreAttempt(c, 1)
  /\ UNCHANGED retryOther

\* the request of the call succeeds (CircuitBreaker.onSuccess)
RequestSucceeds(c) ==
  /\ callSt[c] = "flight"
  /\ callSt' = [callSt EXCEPT ![c] = "ok"]
  /\ IF callGw[c] = "firestore"
       THEN cbFailures' = 0 /\ cbState' = "closed"
       ELSE UNCHANGED <<cbFailures, cbState>>
  /\ UNCHANGED <<callOp, callGw, callAttempts, callErrs, cbElapsed>>
  /\ UNCHANGED retryOther

\* the request of the call fails with an error of class code
\* (CircuitBreaker.onFailure, then the catch block of retryWithBackoff)
RequestFails(c, code) ==
  LET decision == IF callGw[c] = "mongodb" THEN fetchAPI(code)
                  ELSE retryWithBackoff(callAttempts[c], code)
  IN
  /\ callSt[c] = "flight"
  /\ callErrs' = [callErrs EXCEPT ![c] = Append(@, code)]
  /\ callSt' = [callSt EXCEPT ![c] = IF decision = "throw" THEN "failed" ELSE "sleeping"]
  /\ IF callGw[c] = "firestore"
       THEN /\ cbFailures' = cbFailures + 1
            /\ cbElapsed' = FALSE
            /\ cbState' = IF cbFailures + 1 >= FailureThreshold THEN "open" ELSE cbState
       ELSE UNCHANGED <<cbFailures, cbState, cbElapsed>>
  /\ UNCHANGED <<callOp, callGw, callAttempts>>
  /\ UNCHANGED retryOther

\* sleep(jitteredDelay) of retryWithBackoff is over: the next attempt
BackoffElapsed(c) ==
  /\ callSt[c] = "sleeping"
  /\ FirestoreAttempt(c, callAttempts[c] + 1)
  /\ UNCHANGED <<callOp, callGw>>
  /\ UNCHANGED retryOther

\* recoveryTimeout has passed since the last failure
RecoveryTimeoutElapses ==
  /\ cbState = "open" /\ ~cbElapsed
  /\ cbElapsed' = TRUE
  /\ UNCHANGED <<callSt, callOp, callGw, callAttempts, callErrs, cbFailures, cbState>>
  /\ UNCHANGED retryOther

InitRetry ==
  /\ InitMuxVars /\ InitWrapVars /\ InitSwrIdle
  /\ InitRaceIdle /\ InitConnIdle /\ InitRetryIdle /\ InitSaveIdle /\ InitInitIdle
  /\ InitPartIdle /\ InitJoinIdle
  /\ InitLateIdle

NextRetry ==
  \/ \E c \in 1..MaxCalls, op \in GatewayOps, gw \in Gateways : GatewayCall(c, op, gw)
  \/ \E c \in Calls : RequestSucceeds(c)
  \/ \E c \in Calls, code \in RequestErrors : RequestFails(c, code)
  \/ \E c \in Calls : BackoffElapsed(c)
  \/ RecoveryTimeoutElapses

SpecRetry == InitRetry /\ [][NextRetry]_vars

\* FirestoreService methods running concurrently through the one
\* firestoreCircuitBreaker
NextBreaker ==
  \/ \E c \in 1..MaxBreakerCalls : GatewayCall(c, "fetchEmployees", "firestore")
  \/ \E c \in Calls : RequestSucceeds(c)
  \/ \E c \in Calls : RequestFails(c, Transient)
  \/ \E c \in Calls : BackoffElapsed(c)
  \/ RecoveryTimeoutElapses

SpecBreaker == InitRetry /\ [][NextBreaker]_vars

\* ------------------------------------------------ saveAttendanceRecord
\* The JSON body saveAttendanceRecord posts for `data`: the flags as they
\* are, markedBy: data.markedBy || 'Kiosk'.  Records of Contents carry a
\* non-empty markedBy.
RequestBody(data) == IF data = BlankMarkedBy THEN KioskMarkedBy ELSE data

\* cacheAttendanceRecord(empId, record, cluster?) applied to the attendance
\* store: put({...record, empId, cluster})
cacheAttendanceRecord(store, empId, record, cluster) ==
  IF ~dbOpen THEN store
  ELSE [store EXCEPT ![empId] = [val |-> record, tag |-> cluster]]

\* POST /attendance/:empId stores the posted record
RemoteSave(store, empId, body) == [store EXCEPT ![empId] = body]

\* MongoDBService.saveAttendanceRecord -> saveAttendanceRecord(empId, data,
\* cluster) up to the await of fetchAPI
saveAttendanceRecord(empId, data, cluster) ==
  /\ saveSt = "idle"
  /\ nSaves < MaxSaves
  /\ empId \in remoteEmp
  /\ saveSt' = "flight"
  /\ saveId' = empId
  /\ saveRec' = data
  /\ saveCluster' = cluster
  /\ nSaves' = nSaves + 1
  /\ qClean' = [q \in Queries |-> FALSE]
  /\ UNCHANGED lastSaved

\* (mutation: an optimistic update, the cache is written whatever the outcome)
SaveSettles_CacheFirst(ok) ==
  /\ saveSt = "flight"
  /\ saveSt' = "idle"
  /\ cacheAtt' = cacheAttendanceRecord(cacheAtt, saveId, saveRec, saveCluster)
  /\ IF ok
       THEN /\ remoteAtt' = RemoteSave(remoteAtt, saveId, RequestBody(saveRec))
            /\ lastSaved' = [lastSaved EXCEPT ![saveId] = saveRec]
       ELSE UNCHANGED <<remoteAtt, lastSaved>>
  /\ UNCHANGED <<saveId, saveRec, saveCluster, nSaves, qClean>>

\* The POST request settles.  On success the backend holds the posted body
\* and the call caches `data` under `cluster` and resolves; on failure
\* fetchAPI rethrows and the call rejects before the cache write.
SaveSettles(ok) ==
  /\ saveSt = "flight"
  /\ saveSt' = "idle"
  /\ IF ok
       THEN /\ remoteAtt' = RemoteSave(remoteAtt, saveId, RequestBody(saveRec))
            /\ cacheAtt' = cacheAttendanceRecord(cacheAtt, saveId, saveRec, saveCluster)
            /\ lastSaved' = [lastSaved EXCEPT ![saveId] = saveRec]
       ELSE UNCHANGED <<remoteAtt, cacheAtt, lastSaved>>
  /\ UNCHANGED <<saveId, saveRec, saveCluster, nSaves, qClean>>

Save(empId, data, cluster) ==
  /\ saveAttendanceRecord(empId, data, cluster)
  /\ UNCHANGED <<swrVars, saveOther>>

SaveResponse(ok) ==
  /\ SaveSettles(ok)
  /\ UNCHANGED <<dbOpen, cacheEmp, lastSync, clock, remoteEmp, empCluster, qVars>>
  /\ UNCHANGED saveOther

\* a joined query for a cluster, called between the saves
SaveQueryCluster(c, forceRefresh) ==
  /\ CanQuery /\ NextQuery <= MaxQueries
  /\ getEmployeesWithAttendanceByCluster(NextQuery, c, forceRefresh, FALSE)
  /\ qClean' = [qClean EXCEPT ![NextQuery] = (saveSt = "idle")]
  /\ UNCHANGED <<saveSt, saveId, saveRec, saveCluster, nSaves, lastSaved>>
  /\ UNCHANGED saveOther

SaveEmployeesResponse(q, ok) == EmployeesFetchSettles(q, ok) /\ UNCHANGED <<saveVars, saveOther>>
SaveAttendanceResponse(q, ok) == AttendanceFetchSettles(q, ok) /\ UNCHANGED <<saveVars, saveOther>>

\* The backend holds the employees in their clusters and no attendance
\* record yet; the cache is empty.
InitSave ==
  /\ InitMuxVars /\ InitWrapVars
  /\ InitRaceIdle /\ InitConnIdle /\ InitRetryIdle /\ InitSaveIdle /\ InitInitIdle
  /\ InitPartIdle /\ InitJoinIdle
  /\ InitLateIdle
  /\ dbOpen \in BOOLEAN
  /\ cacheEmp = {}
  /\ cacheAtt = [id \in Ids |-> NoRecord]
  /\ lastSync = [k \in SyncKeys |-> 0]
  /\ clock = 0
  /\ remoteEmp \in SUBSET Ids
  /\ remoteAtt = EmptyMap
  /\ empCluster = Home
  /\ InitQVars

NextSave ==
  \/ \E id \in Ids, r \in SaveInputs, c \in Partitions \cup {Undefined} : Save(id, r, c)
  \/ \E ok \in BOOLEAN : SaveResponse(ok)
  \/ \E c \in Partitions, f \in BOOLEAN : SaveQueryCluster(c, f)
  \/ \E q \in Queries, ok \in BOOLEAN : SaveEmployeesResponse(q, ok)
  \/ \E q \in Queries, ok \in BOOLEAN : SaveAttendanceResponse(q, ok)

SpecSave == InitSave /\ [][NextSave]_vars

\* ------------------------------------------------ the outcome of a save
\* what a save and its settling leave alone besides the cache service
saveFrame == <<muxVars, wrapVars, raceVars, connVars, retryVars, initVars, partVars, joinVars,
               batchVars, credVars, scopeVars, clearVars>>

\* saveAttendanceRecord(empId, data, cluster) of the mongodb gateway is called
MongoSaveCalled(empId, data, cluster) ==
  /\ saveAttendanceRecord(empId, data, cluster)
  /\ fGw' = "mongodb"
  /\ fBefore' = cacheAtt
  /\ fOutcome' = "pending"
  /\ fAttempts' = 1
  /\ UNCHANGED <<swrVars, saveFrame>>

\* its POST request settles
MongoSaveSettles(ok) ==
  /\ fGw = "mongodb"
  /\ SaveSettles(ok)
  /\ fOutcome' = IF ok THEN "resolved" ELSE "rejected"
  /\ UNCHANGED <<fGw, fBefore, fAttempts>>
  /\ UNCHANGED <<dbOpen, cacheEmp, lastSync, clock, remoteEmp, empCluster, qVars>>
  /\ UNCHANGED saveFrame

\* FirestoreService.saveAttendanceRecord(empId, attendanceData, cluster) is
\* called: a record without markedBy is refused before anything is sent;
\* otherwise the first attempt starts
FirestoreSaveCalled(empId, attendanceData, cluster) ==
  LET refused == attendanceData = BlankMarkedBy IN
  /\ saveSt = "idle"
  /\ nSaves < MaxSaves
  /\ saveSt' = IF refused THEN "idle" ELSE "flight"
  /\ saveId' = empId
  /\ saveRec' = attendanceData
  /\ saveCluster' = cluster
  /\ nSaves' = nSaves + 1
  /\ qClean' = [q \in Queries |-> FALSE]
  /\ fGw' = "firestore"
  /\ fBefore' = cacheAtt
  /\ fOutcome' = IF refused THEN "rejected" ELSE "pending"
  /\ fAttempts' = IF refused THEN 0 ELSE 1
  /\ UNCHANGED lastSaved
  /\ UNCHANGED <<swrVars, saveFrame>>

\* An attempt settles: setDoc resolved, then the cache write; or the attempt
\* failed (setDoc rejected, or the circuit breaker refused the attempt), which
\* withFirestoreRetry answers with the next attempt until maxAttempts.
FirestoreSaveSettles(ok) ==
  /\ fGw = "firestore"
  /\ saveSt = "flight"
  /\ IF ok
       THEN /\ remoteAtt' = RemoteSave(remoteAtt, saveId, saveRec)
            /\ cacheAtt' = cacheAttendanceRecord(cacheAtt, saveId, saveRec, saveCluster)
            /\ lastSaved' = [lastSaved EXCEPT ![saveId] = saveRec]
            /\ saveSt' = "idle"
            /\ fOutcome' = "resolved"
            /\ UNCHANGED fAttempts
       ELSE /\ UNCHANGED <<remoteAtt, cacheAtt, lastSaved>>
            /\ IF fAttempts < MaxAttempts
                 THEN /\ fAttempts' = fAttempts + 1
                      /\ UNCHANGED <<saveSt, fOutcome>>
                 ELSE /\ saveSt' = "idle"
                      /\ fOutcome' = "rejected"
                      /\ UNCHANGED fAttempts
  /\ UNCHANGED <<saveId, saveRec, saveCluster, nSaves, qClean, fGw, fBefore>>
  /\ UNCHANGED <<dbOpen, cacheEmp, lastSync, clock, remoteEmp, empCluster, qVars>>
  /\ UNCHANGED saveFrame

\* the backend holds the employees, the attendance store is empty
InitFail ==
  /\ InitMuxVars /\ InitWrapVars
  /\ InitRaceIdle /\ InitConnIdle /\ InitRetryIdle /\ InitSaveIdle /\ InitInitIdle
  /\ InitPartIdle /\ InitJoinIdle
  /\ InitLateIdle
  /\ dbOpen \in BOOLEAN
  /\ cacheEmp = {}
  /\ cacheAtt = [id \in Ids |-> NoRecord]
  /\ lastSync = [k \in SyncKeys |-> 0]
  /\ clock = 0
  /\ remoteEmp = Ids
  /\ remoteAtt = EmptyMap
  /\ empCluster = Home
  /\ InitQVars

NextFail ==
  \/ \E id \in Ids, r \in SaveInputs, c \in Partitions \cup {Undefined} : MongoSaveCalled(id, r, c)
  \/ \E ok \in BOOLEAN : MongoSaveSettles(ok)
  \/ \E id \in Ids, r \in SaveInputs, c \in Partitions \cup {Undefined} : FirestoreSaveCalled(id, r, c)
  \/ \E ok \in BOOLEAN : FirestoreSaveSettles(ok)

SpecFail == InitFail /\ [][NextFail]_vars

\* ------------------------------------------------------ clearClusterCache
\* what clearClusterCache leaves alone besides the three stores
clearFrame == <<muxVars, wrapVars, raceVars, connVars, retryVars, saveVars, initVars, partVars,
                joinVars, batchVars, credVars, scopeVars, failVars,
                dbOpen, clock, remoteEmp, remoteAtt, empCluster, qVars>>

\* clearClusterCache(cluster) up to the transaction: the employees cached
\* under the cluster are read
ClearClusterCacheCalled(cluster) ==
  /\ clrSt \in {"idle", "done"}
  /\ nClears < MaxClears
  /\ nClears' = nClears + 1
  /\ clrSt' = IF dbOpen THEN "read" ELSE "done"
  /\ clrCluster' = cluster
  /\ clrEmployees' = EmpIds(getCachedEmployeesByCluster(cluster))
  /\ clrBefore' = [emp |-> cacheEmp, att |-> cacheAtt, sync |-> lastSync]
  /\ UNCHANGED <<cacheEmp, cacheAtt, lastSync>>
  /\ UNCHANGED clearFrame

\* its readwrite transaction completes: the employee and the attendance
\* record of every id read are deleted, and the sync time of the cluster
ClearTransactionCompletes ==
  /\ clrSt = "read"
  /\ clrSt' = "done"
  /\ cacheEmp' = {e \in cacheEmp : e.empId \notin clrEmployees}
  /\ cacheAtt' = [id \in Ids |-> IF id \in clrEmployees THEN NoRecord ELSE cacheAtt[id]]
  /\ lastSync' = [lastSync EXCEPT ![clrCluster] = 0]
  /\ UNCHANGED <<nClears, clrCluster, clrEmployees, clrBefore>>
  /\ UNCHANGED clearFrame

\* The cache is what earlier sessions left in IndexedDB: employees under
\* their cluster, attendance records under their cluster (also of employees
\* that were never cached) or under 'Unknown', sync times of the clusters.
InitClear ==
  /\ InitMuxVars /\ InitWrapVars
  /\ InitRaceIdle /\ InitConnIdle /\ InitRetryIdle /\ InitSaveIdle /\ InitInitIdle
  /\ InitPartIdle /\ InitJoinIdle
  /\ InitLateIdle
  /\ dbOpen = TRUE
  /\ cacheEmp \in SUBSET {[empId |-> id, cluster |-> Home[id]] : id \in Ids}
  /\ cacheAtt \in [Ids -> {NoRecord} \cup [val : {"v1"}, tag : Partitions \cup {"Unknown"}]]
  /\ \A id \in Ids : cacheAtt[id] # NoRecord => cacheAtt[id].tag \in {Home[id], "Unknown"}
  /\ lastSync \in [SyncKeys -> {0, 1}]
  /\ \A k \in SyncKeys \ Partitions : lastSync[k] = 0
  /\ clock = 1
  /\ remoteEmp = {}
  /\ remoteAtt = EmptyMap
  /\ empCluster = Home
  /\ InitQVars

NextClear ==
  \/ \E cluster \in Partitions : ClearClusterCacheCalled(cluster)
  \/ ClearTransactionCompletes

SpecClear == InitClear /\ [][NextClear]_vars

\* ====================================================== claims C1 .. C10
KeyCalls(k) == {i \in Subs : subState[i] # "free" /\ subKey[i] = k}
InitPending == {i \in Subs : init[i] \in {"creating", "existing"}}
HandlersOf(k) == {h \in Subs : subKey[h] = k /\ \E s \in Subs : h \in sockHandlers[s]}

\* C1: N subscribe calls for a key followed by the N unsubscribe calls, under
\* any interleaving with the socket-ready callbacks, emit exactly one join and
\* exactly one leave for the key and register its push handler exactly once.
C1_JoinedOnceLeftOnce ==
  \A k \in Keys :
    (/\ KeyCalls(k) # {}
     /\ ~subAfterUnsub[k]
     /\ \A i \in KeyCalls(k) : subState[i] = "dead" /\ init[i] = "done")
    => (joinCount[k] = 1 /\ leaveCount[k] = 1 /\ onCount[k] = 1)

\* C2: when every listener of a key has unsubscribed and no socket
\* initialisation is pending, no socket is in the key's room and no socket
\* carries a push handler of the key.
C2_MembershipNeverOutlivesListeners ==
  \A k \in Keys :
    (/\ KeyCalls(k) # {}
     /\ \A i \in KeyCalls(k) : subState[i] = "dead"
     /\ InitPending = {})
    => (/\ \A s \in Subs : k \notin sockRooms[s]
        /\ HandlersOf(k) = {})

\* C5: a push event received for a key with k registered listeners starts a
\* single forced status refetch for the key and, once the refetch has
\* succeeded, has invoked the status callback of each of the k listeners
\* exactly once, all with the result of the same refetch.
StatusRefetches(e, k) == {r \in started : r.e = e /\ subKey[r.h] = k /\ r.kind = "att"}
C5_FanOut ==
  \A e \in 1..nEvents : \A k \in evOk[e] :
    /\ Cardinality(StatusRefetches(e, k)) = 1
    /\ (StatusRefetches(e, k) \cap (refreshes \cup failed) = {})
         => \A l \in Listeners(k) : attFrom[l] = StatusRefetches(e, k)

\* C6: no callback of a subscribe call is invoked after the call's unsubscribe
\* function has returned.
C6_NoCallbackAfterUnsubscribe ==
  \A i \in Subs : \A kd \in Kinds : fetchSt[i][kd] # "late"

C8_SnapshotForEverySubscriber ==
  (/\ nEvents = 0
   /\ \A i \in Subs : \A kd \in Kinds : fetchSt[i][kd] \notin {"pending", "failed"})
  => /\ \A w \in WCbs : wState[w] = "live" => wGot[w]
     /\ \A i \in Subs : \A kd \in Kinds : subState[i] = "live" => fetchSt[i][kd] = "ok"

\* ---- joined cache-first queries
Started(q) == qPhase[q] # "idle"
BothFetched(q) == eSt[q] = "ok" /\ aSt[q] = "ok"
NetworkResult(q) == Merged(netE[q], netA[q])

\* C3: a cache-first query is rejected only when the cache held no data for its
\* scope and the network fetch failed: with entities cached for the scope a
\* failing network leaves the call resolved with the cached entities and
\* onFresh is never invoked.
C3_FailsOnlyWithoutCache ==
  \A q \in Queries :
    (Started(q) /\ ~qForce[q] /\ cachedE[q] # {})
    => /\ qPhase[q] # "rejected"
       /\ (eSt[q] = "fail" /\ aSt[q] = "fail")
            => (qPhase[q] = "resolved" /\ qFresh[q] = << >>
                /\ DOMAIN qResult[q] = cachedE[q])

\* C4: whenever the cache holds data for the scope and the refresh is not
\* forced, the query has resolved with the cached data as soon as the cache has
\* been read, whatever the state of the network fetch.
C4_FastPath ==
  \A q \in Queries :
    (Started(q) /\ ~qForce[q] /\ cachedE[q] # {})
    => (qPhase[q] = "resolved" /\ DOMAIN qResult[q] = cachedE[q])

C10_ForceRefreshBypassesCache ==
  \A q \in Queries :
    (Started(q) /\ qForce[q])
    => /\ qPhase[q] = "resolved" => (BothFetched(q) /\ qResult[q] = NetworkResult(q))
       /\ BothFetched(q) => \A n \in 1..Len(qFresh[q]) : qFresh[q][n] = NetworkResult(q)


\* ====================================================== claims C11 .. C20
LastArrival == arrivals[Len(arrivals)]

\* C11: last network response wins: when two or more fetches of one kind for
\* one scope were in flight together and all have completed, the cache holds,
\* for every record of the response that arrived last, the value of that
\* response.
C11_LastResponseWins ==
  (/\ dbOpen
   /\ Len(arrivals) >= 2
   /\ \A f \in Fetches : fSt[f] \in {"idle", "done"})
  => /\ \A r \in fResp[LastArrival].e : r \in getAllCachedEmployees
     /\ \A id \in Ids : fResp[LastArrival].a[id] # NoVal =>
          cacheAtt[id].val = fResp[LastArrival].a[id]

\* C12: after the transport of a socket has reconnected, every key that has
\* registered listeners and whose push handler is attached to the socket is
\* joined to its room on the socket again.
C12_RejoinAfterReconnect ==
  \A s \in sockAgain \ sockDown : \A k \in Keys :
    (/\ Listeners(k) # {}
     /\ objHandler[active[k]] # 0
     /\ objHandler[active[k]] \in sockHandlers[s])
    => k \in sockRooms[s]

\* ---- failures of the fetches of a subscription
\* initial fetches (call, kind) and push-triggered refetches that were rejected
FailedInitialFetches == {<<i, kd>> \in Subs \X Kinds : fetchSt[i][kd] = "failed"}
FailedRefetches == failed

\* Rejections no handler takes: the initial fetches are started as
\* fetch(...).then(onEmployees) and the refetches as fetch(...).then(notify),
\* without a rejection handler, so the promise each .then returns is rejected
\* with nothing attached to it.
UnhandledInitial == FailedInitialFetches
UnhandledRefetches == FailedRefetches

\* Failures handed to the subscriber: subscribeToCluster and subscribeToAll
\* take no error callback and return no promise, and the wrapper never calls
\* the onError it accepts.
ReportedInitial == {}
ReportedRefetches == {}

\* C13: a failure of the initial fetch or of a push-triggered refetch of a
\* subscription is reported to the subscriber and never becomes an unhandled
\* rejection.
C13_FetchFailuresReported ==
  /\ \A x \in FailedInitialFetches : x \in ReportedInitial /\ x \notin UnhandledInitial
  /\ \A r \in FailedRefetches : r \in ReportedRefetches /\ r \notin UnhandledRefetches

\* C14: a gateway operation surfaces a transient failure only after its
\* attempts are exhausted, every failed attempt before the last having been
\* retried, and a permission or validation failure ends the operation at once.
C14_RetryThenSurface ==
  \A c \in Calls :
    /\ (callSt[c] = "failed" /\ callErrs[c][Len(callErrs[c])] = Transient)
          => Len(callErrs[c]) = MaxAttempts
    /\ \A n \in 1..Len(callErrs[c]) :
          callErrs[c][n] \in {Permission, Validation}
            => (n = Len(callErrs[c]) /\ callSt[c] = "failed")

C16_RepeatedQueryEqual ==
  \A p \in Queries : \A q \in Queries :
    (p < q /\ qPhase[p] = "resolved" /\ qPhase[q] = "resolved")
    => qResult[p] = qResult[q]

\* C17: the operations waiting for the initialisation all await the one init
\* promise of the service, and indexedDB.open is called at most once in the
\* lifetime of the service, also after an open that failed.
C17_InitOnce ==
  /\ openCount <= 1
  /\ nPromises <= 1
  /\ \A o \in CacheOps : opSt[o] = "awaiting" => opAwaits[o] = initPromise

\* C17 witness: the open failed, and an operation called after the failure
\* got the resolved promise of the first call and an empty result, without a
\* second open.
C17_Witness ==
  /\ ~dbOpen /\ openCount = 1 /\ pendingOpens = {}
  /\ \A o \in CacheOps : opSt[o] = "resolved" /\ opAwaits[o] = initPromise
                          /\ opResult[o] \in {"empty", "noop"}

\* C18: no cache operation fails its caller: every operation that has
\* settled has resolved, and none stays unsettled once its transaction has
\* ended; without a database a read gives an empty result and a write is a
\* no-op.
C18_CacheNeverFails ==
  \A o \in CacheOps :
    /\ opSt[o] \notin {"rejected", "hung"}
    /\ (opSt[o] = "resolved" /\ ~dbOpen) => opResult[o] \in {"empty", "noop"}

\* C19: whatever cacheEmployees calls were made, every cached id is in
\* getAllCachedEmployees() exactly once and in getCachedEmployeesByCluster(p)
\* for exactly one cluster p, and the by-cluster results together are
\* getAllCachedEmployees().
C19_PartitionInvariant ==
  /\ \A id \in EmpIds(getAllCachedEmployees) :
       /\ Cardinality({e \in getAllCachedEmployees : e.empId = id}) = 1
       /\ Cardinality({p \in Partitions : id \in EmpIds(getCachedEmployeesByCluster(p))}) = 1
  /\ UNION {getCachedEmployeesByCluster(p) : p \in Partitions} = getAllCachedEmployees

\* C19 witness: an id that was read under one cluster has been cached again
\* under another and is now returned for that one.
C19_Witness ==
  \E id \in Ids, p, r \in Partitions :
    /\ p # r
    /\ id \in EmpIds(partBy[p])
    /\ id \in EmpIds(getCachedEmployeesByCluster(r))
    /\ Cardinality(getAllCachedEmployees) = Cardinality(Ids)

\* C20: the joined view of an employee list and an attendance map has one
\* row per employee of the list, in list order, whose attendanceRecord is the
\* record of the map for the employee's id, or undefined when the map has
\* none; the gateway merge likewise has a row for every employee.
C20_JoinCompleteness ==
  /\ joinRows # << >> =>
       LET rows == joinRows[1] IN
       /\ Len(rows) = Len(joinE)
       /\ \A i \in 1..Len(joinE) :
            /\ rows[i].empId = joinE[i]
            /\ rows[i].attendanceRecord =
                 (IF joinE[i] \in DOMAIN joinM THEN joinM[joinE[i]] ELSE NoVal)
  /\ joinMerged # << >> =>
       LET rows == joinMerged[1] IN
       /\ DOMAIN rows = ListIds(joinE)
       /\ \A id \in ListIds(joinE) :
            rows[id] = (IF id \in DOMAIN joinM THEN joinM[id] ELSE NoVal)

\* C20 witness: a joined view of a list with an employee that has a record
\* and an employee that has none.
C20_Witness ==
  /\ joinRows # << >> /\ joinMerged # << >>
  /\ \E i, j \in 1..Len(joinE) : joinE[i] \in DOMAIN joinM /\ joinE[j] \notin DOMAIN joinM

\* -------------------------------------------------- claims C21 .. C30
\* ceil(n / d)
Ceil(n, d) == (n + d - 1) \div d

\* C21: a batch fetch of n ids that went to the backend has issued
\* ceil(n / 30) remote calls, each with at most 30 ids, which together carry
\* every requested id exactly once.
C21_BatchesOfThirty ==
  (bSt \in {"done", "failed"} /\ ~bFromCache) =>
    /\ Len(bCalls) = Ceil(bIds, BATCH_SIZE)
    /\ \A i \in 1..Len(bCalls) : Cardinality(bCalls[i]) <= BATCH_SIZE
    /\ \A k \in 1..bIds : Cardinality({i \in 1..Len(bCalls) : k \in bCalls[i]}) = 1

\* the sockets in use: the one the module variable holds and the ones the
\* subscribe functions were given, as long as they are not disconnected
SocketsInUse ==
  ((IF cSocket # 0 THEN {cSocket} ELSE {})
     \cup {iSock[j] : j \in {x \in InitCalls : iSt[x] = "done" /\ iVia[x] = "subscribe"}})
    \cap cSockOpen

\* C22: once the URL or key has been changed no socket that was opened with
\* the old values is in use: every socket in use was opened with the
\* configuration now stored.
C22_NoSocketWithOldCredentials ==
  \A s \in SocketsInUse : cSockCred[s] = config

\* an event of scope c concerns key k: k is the scope of everything, the event
\* carries no partition, or it carries k
InScope(k, c) == k = AllKey \/ c = NoCluster \/ c = k

\* the handlers registered on the sockets
Registered == UNION {sockHandlers[s] : s \in sockets}

\* C23: when a push event is delivered, the handler of a key that has
\* listeners starts the forced status refetch for its key exactly when the
\* event is scoped to the key or carries no partition; and the status
\* callbacks are only ever invoked with refetches started by events in the
\* scope of the listener's key.
C23_PushEventScoping ==
  /\ \A r \in started : InScope(subKey[r.h], evScope[r.e])
  /\ \A l \in Subs : \A r \in attFrom[l] : InScope(subKey[l], evScope[r.e])
  /\ \A e \in 1..nEvents : \A k \in evOk[e] :
       InScope(k, evScope[e]) =>
         \E r \in started : r.e = e /\ r.kind = "att" /\ subKey[r.h] = k

\* C23 witness: an event of another partition has reached a socket on which
\* the handler of cluster X is registered for its listeners (through the room
\* of all updates), the admin refetch it started has notified its listener,
\* and no refetch for X was started.
C23_Witness ==
  \E e \in 1..nEvents : \E h \in Registered :
    /\ evScope[e] \notin Keys \cup {NoCluster}
    /\ subKey[h] \in Clusters
    /\ Listeners(subKey[h]) # {} /\ objHandler[active[subKey[h]]] = h
    /\ \A r \in started : r.e = e => subKey[r.h] = AllKey
    /\ \E l \in Subs : \E r \in attFrom[l] : r.e = e

\* an execute call is let through to the wrapped operation in this step
Admitted(c) == callSt[c] # "flight" /\ callSt'[c] = "flight"

\* C24: while the breaker is open and recoveryTimeout has not elapsed since
\* the last failure it stays open and lets no execute call through; after
\* the timeout it lets one trial through and no other call while the trial
\* runs; a success closes the breaker and resets the failure count.
C24_CircuitBreaker ==
  /\ [][(cbState = "open" /\ ~cbElapsed) =>
          (cbState' = "open" /\ \A c \in Calls : ~Admitted(c))]_vars
  /\ [][cbState = "half-open" => \A c \in Calls : ~Admitted(c)]_vars
  /\ [][\A c \in Calls : (callSt[c] = "flight" /\ callSt'[c] = "ok") =>
                           (cbState' = "closed" /\ cbFailures' = 0)]_vars

\* the initializeSocket calls that have returned a socket to a subscribe call
Returned == {j \in InitCalls : iSt[j] = "done" /\ iVia[j] = "subscribe"}

\* C25: at most one physical socket is connected at any time, and the
\* callers of initializeSocket whose sockets are still connected all hold the
\* same socket.
C25_AtMostOneSocket ==
  /\ Cardinality(cSockOpen) <= 1
  /\ \A i, j \in Returned :
       (iSock[i] \in cSockOpen /\ iSock[j] \in cSockOpen) => iSock[i] = iSock[j]

\* no fetchFresh of any query is awaiting its response
NoFetchInFlight == \A p \in Queries : eSt[p] # "flight" /\ aSt[p] # "flight"

\* C26: once a network fetch for scope S has succeeded and no fetch is in
\* flight, the cached reads for S return no entity and no status record that
\* the network response does not contain (the backend does not change in
\* these behaviours, so every response for S is the same).
C26_CacheConvergesOnRemoval ==
  (dbOpen /\ NoFetchInFlight) =>
    \A q \in Queries :
      /\ eSt[q] = "ok" => CachedEmployeesFor(qScope[q]) \subseteq netE[q]
      /\ aSt[q] = "ok" =>
           \A id \in Ids : CachedAttendanceFor(qScope[q])[id] # NoVal => netA[q][id] # NoVal

\* the status record of id is returned by getCachedAttendanceByCluster(p)
VisibleIn(p, id) == getCachedAttendanceByCluster(p)[id] # NoVal

\* C27: a status record that the partition-scoped cached read of partition p
\* returns is still returned by it after every step, in particular after an
\* all-scope status fetch has cached its response (no step of these
\* behaviours moves an entity to another partition or deletes a record).
C27_PartitionTagKept ==
  [][\A p \in Partitions, id \in Ids : VisibleIn(p, id) => VisibleIn(p, id)']_vars

\* the attendance store after cacheAttendanceRecord of the save's record
AfterSave == cacheAttendanceRecord(fBefore, saveId, saveRec, saveCluster)

\* C28: while the remote request of a save is pending, and after the save
\* was rejected, the cached status record of every id is what it was when
\* the save was called; after the save resolved the store differs from that
\* only by the saved record.
C28_FailedSaveLeavesCache ==
  /\ fOutcome \in {"pending", "rejected"} => cacheAtt = fBefore
  /\ fOutcome = "rejected" => saveSt = "idle"
  /\ fOutcome = "resolved" => cacheAtt = AfterSave

\* C28 witness: a save was rejected with other contents than the cached
\* record of its id, which an earlier save had stored.
C28_Witness ==
  /\ fOutcome = "rejected"
  /\ fAttempts > 0
  /\ cacheAtt[saveId].val # NoVal
  /\ cacheAtt[saveId].val # saveRec

\* the registrations with the wrapper whose unsubscribe function has not been called
LiveRegistrations == {w \in WCbs : wState[w] = "live"}

\* C29: calling an unsubscribe function of the wrapper again, also after a
\* newer subscription for the cluster has been created, leaves the newer
\* subscription alone: the subscription of every live registration is still
\* the registry entry of its cluster and still holds the registration's
\* callback, and the registry changes only in a step that makes a
\* registration or cancels a live one.
C29_UnsubscribeIdempotentLocal ==
  /\ [](\A w \in LiveRegistrations :
          /\ wsubs[subKey[wObj[w]]] = wObj[w]
          /\ w \in wCbs[wObj[w]][wKind[w]])
  /\ [][wState' = wState => wsubs' = wsubs]_vars

\* the cached reads of partition p over given stores emp, att, sync
ViewOf(p, emp, att, sync) ==
  [employees |-> {e \in emp : e.cluster = p},
   attendance |-> [id \in Ids |-> IF att[id].val # NoVal /\ att[id].tag = p
                                     THEN att[id].val ELSE NoVal],
   lastSync |-> sync[p]]

\* C30: after clearClusterCache(P) the cached employees of P, the cached
\* status records of P (also of entities that were never cached) and the
\* sync time of P are gone, and the cached employees, status records and
\* sync times of every other partition are what they were at the call.
C30_ClearsExactlyThePartition ==
  clrSt = "done" =>
    /\ getCachedEmployeesByCluster(clrCluster) = {}
    /\ getCachedAttendanceByCluster(clrCluster) = EmptyMap
    /\ lastSync[clrCluster] = 0
    /\ \A p \in Partitions \ {clrCluster} :
         ViewOf(p, cacheEmp, cacheAtt, lastSync)
           = ViewOf(p, clrBefore.emp, clrBefore.att, clrBefore.sync)
====
